---- MODULE Spec2Model ----
(***************************************************************************)
(* Model of the order / loyalty / payment settlement core of the           *)
(* dry-cleaning POS backend (src/backend/server.py).                       *)
(*                                                                         *)
(* The document store is modelled collection by collection: customers,     *)
(* orders, payment_transactions, loyalty_transactions, loyalty_settings.   *)
(* Every request handler is one action (each request runs to completion;   *)
(* the sequential behaviour of the handlers is what Spec describes).       *)
(*                                                                         *)
(* Numbers: money is counted in cents, points_per_dollar and tier          *)
(* multipliers in hundredths (1.0 = 100), so that int(amount * ppd * mult) *)
(* is an integer division.  Timestamps are modelled by whether they are    *)
(* stamped.  Fields without influence on the modelled handlers (names,     *)
(* items, notes, order_number, ...) are left out of the documents.         *)
(***************************************************************************)
EXTENDS Integers, Sequences, FiniteSets

VARIABLES
    customers,            \* db.customers: customer id -> document
    nextCustomerId,       \* ids are fresh uuids: never reused after a delete
    orders,               \* db.orders: sequence of documents, order id = index
    payments,             \* db.payment_transactions, payment id = index
    ledger,               \* db.loyalty_transactions, in insertion order
    loyalty_settings,     \* db.loyalty_settings: "default" -> settings (or empty)
    response,             \* what the last request returned to its caller
    requests,             \* the number of requests handled so far
    inflight              \* the create_order requests followed storage call by
                          \* storage call: their local variables and position

vars == <<customers, nextCustomerId, orders, payments, ledger, loyalty_settings,
          response, requests, inflight>>

----------------------------------------------------------------------------
(* Bounds of the model *)

MaxCustomers == 1
MaxOrders == 2
MaxPayments == 2
MaxAdjustments == 1
\* the length of the request sequences explored
MaxRequests == 4

(* Inputs the requests are drawn from *)

\* ids that match no document: beyond every id the model ever issues
UnknownCustomer == MaxCustomers + 1
UnknownOrder == MaxOrders + 1
UnknownSession == MaxPayments + 1
\* None in an id field (order_id of an adjustment, stripe_session_id)
NoId == 0

CustomerTypes == {"retail", "business"}
PaymentMethods == {"cash", "card", "bank_transfer", "pay_on_collection", "invoice"}
\* the authenticated actors, one per role
Users == { [id |-> "u_admin", role |-> "admin"],
           [id |-> "u_manager", role |-> "manager"],
           [id |-> "u_staff", role |-> "staff"] }
\* order totals and payment amounts, in cents
OrderTotals == {250}
PaymentAmounts == {0, 250}
RedeemChoices == {0, 2, 3}
AdjustChoices == {-3, 2}

Null == "null"

----------------------------------------------------------------------------
(* Loyalty settings *)

\* LoyaltySettings() defaults
DefaultLoyaltySettings ==
    [ enabled |-> TRUE,
      points_per_dollar |-> 100,
      redemption_rate |-> 5,
      min_redemption_points |-> 100,
      max_redemption_percent |-> 50,
      points_expiry_days |-> 365,
      exclude_business_customers |-> TRUE,
      tiers |-> <<>> ]

\* settings.get(key, default) on the stored document, {} when none is stored
SettingsGet(ls, key, default) ==
    IF "default" \in DOMAIN ls THEN ls["default"][key] ELSE default

----------------------------------------------------------------------------
Init ==
    /\ customers = <<>>
    /\ nextCustomerId = 1
    /\ orders = <<>>
    /\ payments = <<>>
    /\ ledger = <<>>
    /\ loyalty_settings = <<>>
    /\ response = [code |-> 200, detail |-> "ok"]
    /\ requests = 0
    /\ inflight = <<>>

\* the status code and the detail (or the salient part of the body) of a reply
Reply(code, detail) == [code |-> code, detail |-> detail]

\* one more request accepted
Accepted ==
    /\ requests < MaxRequests
    /\ requests' = requests + 1

\* one more request handled, from its first storage call to its reply
Handled ==
    /\ Accepted
    /\ UNCHANGED inflight

----------------------------------------------------------------------------
(* POST /customers *)
create_customer(ctype, blacklisted, excluded) ==
    /\ Handled
    /\ nextCustomerId <= MaxCustomers
    /\ customers' = [c \in (DOMAIN customers) \cup {nextCustomerId} |->
                        IF c = nextCustomerId
                        THEN [ customer_type |-> ctype,
                               is_blacklisted |-> blacklisted,
                               loyalty_excluded |-> excluded,
                               loyalty_points |-> 0,
                               total_orders |-> 0,
                               total_spent |-> 0,
                               average_order_value |-> 0,
                               last_order_date |-> FALSE ]
                        ELSE customers[c]]
    /\ nextCustomerId' = nextCustomerId + 1
    /\ response' = Reply(200, "ok")
    /\ UNCHANGED <<orders, payments, ledger, loyalty_settings>>

\* the customer update made to carry a new customer_type into the customer's orders
update_customer_Propagates(c, fields, upd) ==
    /\ Handled
    /\ IF fields = {}
       THEN /\ response' = Reply(400, "No update data provided")
            /\ UNCHANGED <<customers, orders>>
       ELSE IF c \notin DOMAIN customers
       THEN /\ response' = Reply(404, "Customer not found")
            /\ UNCHANGED <<customers, orders>>
       ELSE /\ customers' = [customers EXCEPT ![c] =
                   [@ EXCEPT
                      !.customer_type = IF "customer_type" \in fields
                                        THEN upd.customer_type ELSE @,
                      !.is_blacklisted = IF "is_blacklisted" \in fields
                                         THEN upd.is_blacklisted ELSE @,
                      !.loyalty_excluded = IF "loyalty_excluded" \in fields
                                           THEN upd.loyalty_excluded ELSE @]]
            /\ orders' = [o \in DOMAIN orders |->
                             IF orders[o].customer_id = c /\ "customer_type" \in fields
                             THEN [orders[o] EXCEPT !.customer_type = upd.customer_type]
                             ELSE orders[o]]
            /\ response' = Reply(200, "ok")
    /\ UNCHANGED <<nextCustomerId, payments, ledger, loyalty_settings>>

(* PUT /customers/{customer_id}: fields is the set of keys of update_data  *)
(* (the payload's non-null fields), upd their values.                      *)
update_customer(c, fields, upd) ==
    /\ Handled
    /\ IF fields = {}
       THEN /\ response' = Reply(400, "No update data provided")
            /\ UNCHANGED customers
       ELSE IF c \notin DOMAIN customers
       THEN /\ response' = Reply(404, "Customer not found")
            /\ UNCHANGED customers
       ELSE /\ customers' = [customers EXCEPT ![c] =
                   [@ EXCEPT
                      !.customer_type = IF "customer_type" \in fields
                                        THEN upd.customer_type ELSE @,
                      !.is_blacklisted = IF "is_blacklisted" \in fields
                                         THEN upd.is_blacklisted ELSE @,
                      !.loyalty_excluded = IF "loyalty_excluded" \in fields
                                           THEN upd.loyalty_excluded ELSE @]]
            /\ response' = Reply(200, "ok")
    /\ UNCHANGED <<nextCustomerId, orders, payments, ledger, loyalty_settings>>

(* DELETE /customers/{customer_id} *)
delete_customer(c) ==
    /\ Handled
    /\ IF c \notin DOMAIN customers
       THEN /\ response' = Reply(404, "Customer not found")
            /\ UNCHANGED customers
       ELSE /\ customers' = [d \in (DOMAIN customers) \ {c} |-> customers[d]]
            /\ response' = Reply(200, "ok")
    /\ UNCHANGED <<nextCustomerId, orders, payments, ledger, loyalty_settings>>

(* PUT /settings/loyalty: fields is the set of payload keys with a non-null *)
(* value, upd their values.                                                 *)
update_loyalty_settings(user, fields, upd) ==
    /\ Handled
    /\ IF user.role \notin {"admin", "manager"}
       THEN /\ response' = Reply(403, "Not authorized")
            /\ UNCHANGED loyalty_settings
       ELSE LET current_settings ==
                    IF "default" \in DOMAIN loyalty_settings
                    THEN loyalty_settings["default"]
                    ELSE DefaultLoyaltySettings
                merged == [k \in DOMAIN current_settings |->
                              IF k \in fields THEN upd[k] ELSE current_settings[k]]
            IN  /\ loyalty_settings' = [d \in {"default"} |-> merged]
                /\ response' = Reply(200, "ok")
    /\ UNCHANGED <<customers, nextCustomerId, orders, payments, ledger>>

----------------------------------------------------------------------------
(* Loyalty engine *)

NumAdjustments == Cardinality({i \in DOMAIN ledger : ledger[i].type = "adjustment"})

\* round(a / b, 2) of two amounts in cents, b > 0: to the nearest cent
RoundDiv_Undivided(a, b) == a

RoundDiv(a, b) == (2 * a + b) \div (2 * b)

Max(a, b) == IF a >= b THEN a ELSE b

\* the adjusted balance without the floor at zero
AdjustedPoints_Unclamped(current_points, adjustment) == current_points + adjustment

\* max(0, current_points + adjustment)
AdjustedPoints(current_points, adjustment) == Max(0, current_points + adjustment)

(* POST /customers/{customer_id}/loyalty/adjust *)
adjust_loyalty_points(user, c, adjustment) ==
    /\ Handled
    /\ NumAdjustments < MaxAdjustments
    /\ IF user.role \notin {"admin", "manager"}
       THEN /\ response' = Reply(403, "Not authorized")
            /\ UNCHANGED <<customers, ledger>>
       ELSE IF c \notin DOMAIN customers
       THEN /\ response' = Reply(404, "Customer not found")
            /\ UNCHANGED <<customers, ledger>>
       ELSE LET current_points == customers[c].loyalty_points
                new_points == AdjustedPoints(current_points, adjustment)
            IN  /\ customers' = [customers EXCEPT ![c].loyalty_points = new_points]
                /\ ledger' = Append(ledger,
                       [ customer_id |-> c,
                         order_id |-> NoId,
                         type |-> "adjustment",
                         points |-> adjustment,
                         balance_after |-> new_points,
                         adjusted_by |-> user.id ])
                /\ response' = Reply(200, "ok")
    /\ UNCHANGED <<nextCustomerId, orders, payments, loyalty_settings>>

\* the tiers sorted by min_points, highest first (sorted(..., reverse=True) is
\* stable: tiers of equal min_points keep their stored order)
RECURSIVE SortedTiers(_)
SortedTiers(tiers) ==
    IF tiers = <<>> THEN <<>>
    ELSE LET first == CHOOSE i \in DOMAIN tiers :
                         /\ \A j \in DOMAIN tiers : tiers[j].min_points <= tiers[i].min_points
                         /\ \A j \in 1 .. (i - 1) : tiers[j].min_points < tiers[i].min_points
             rest == [k \in 1 .. (Len(tiers) - 1) |->
                         IF k < first THEN tiers[k] ELSE tiers[k + 1]]
         IN  <<tiers[first]>> \o SortedTiers(rest)

\* the descending scan with a strict comparison
RECURSIVE ScanTiers_Strict(_, _)
ScanTiers_Strict(sorted, current_points) ==
    IF sorted = <<>> THEN 100
    ELSE IF current_points > Head(sorted).min_points THEN Head(sorted).multiplier
    ELSE ScanTiers_Strict(Tail(sorted), current_points)

\* the descending scan: the first tier the balance satisfies, 1.0 when none
RECURSIVE ScanTiers(_, _)
ScanTiers(sorted, current_points) ==
    IF sorted = <<>> THEN 100
    ELSE IF current_points >= Head(sorted).min_points THEN Head(sorted).multiplier
    ELSE ScanTiers(Tail(sorted), current_points)

TierMultiplier(tiers, current_points) == ScanTiers(SortedTiers(tiers), current_points)

\* int(amount * points_per_dollar * multiplier): amount in cents, the two
\* factors in hundredths; a negative product truncates to a value <= 0
PointsEarned(amount, points_per_dollar, multiplier) ==
    (amount * points_per_dollar * multiplier) \div 1000000

\* the early returns of award_loyalty_points, without that for loyalty_excluded
AwardSkipped_ExcludedEarns(cs, ls, customer_id, amount) ==
    \/ customer_id \notin DOMAIN cs
    \/ ~SettingsGet(ls, "enabled", TRUE)
    \/ /\ cs[customer_id].customer_type = "business"
       /\ SettingsGet(ls, "exclude_business_customers", TRUE)
    \/ PointsEarned(amount,
                    SettingsGet(ls, "points_per_dollar", 100),
                    TierMultiplier(SettingsGet(ls, "tiers", <<>>),
                                   cs[customer_id].loyalty_points)) <= 0

\* the early returns of award_loyalty_points
AwardSkipped(cs, ls, customer_id, amount) ==
    \/ customer_id \notin DOMAIN cs
    \/ cs[customer_id].loyalty_excluded
    \/ ~SettingsGet(ls, "enabled", TRUE)
    \/ /\ cs[customer_id].customer_type = "business"
       /\ SettingsGet(ls, "exclude_business_customers", TRUE)
    \/ PointsEarned(amount,
                    SettingsGet(ls, "points_per_dollar", 100),
                    TierMultiplier(SettingsGet(ls, "tiers", <<>>),
                                   cs[customer_id].loyalty_points)) <= 0

\* the accrual with the balance read at the start recorded as balance_after
award_loyalty_points_StaleBalanceAfter(cs, os, lg, ls, customer_id, order_id, amount) ==
    IF AwardSkipped(cs, ls, customer_id, amount)
    THEN [customers |-> cs, orders |-> os, ledger |-> lg]
    ELSE LET current_points == cs[customer_id].loyalty_points
             points_earned ==
                 PointsEarned(amount,
                              SettingsGet(ls, "points_per_dollar", 100),
                              TierMultiplier(SettingsGet(ls, "tiers", <<>>), current_points))
         IN  [ customers |-> [cs EXCEPT ![customer_id].loyalty_points =
                                           current_points + points_earned],
               orders |-> [os EXCEPT ![order_id].loyalty_points_earned = points_earned],
               ledger |-> Append(lg,
                   [ customer_id |-> customer_id,
                     order_id |-> order_id,
                     type |-> "earned",
                     points |-> points_earned,
                     balance_after |-> current_points,
                     adjusted_by |-> Null ]) ]

(* award_loyalty_points(customer_id, order_id, amount, order_number) on the *)
(* collections cs, os, lg with the settings ls: the collections it leaves.  *)
award_loyalty_points(cs, os, lg, ls, customer_id, order_id, amount) ==
    IF AwardSkipped(cs, ls, customer_id, amount)
    THEN [customers |-> cs, orders |-> os, ledger |-> lg]
    ELSE LET current_points == cs[customer_id].loyalty_points
             points_earned ==
                 PointsEarned(amount,
                              SettingsGet(ls, "points_per_dollar", 100),
                              TierMultiplier(SettingsGet(ls, "tiers", <<>>), current_points))
             new_balance == current_points + points_earned
         IN  [ customers |-> [cs EXCEPT ![customer_id].loyalty_points = new_balance],
               orders |-> IF order_id \in DOMAIN os
                          THEN [os EXCEPT ![order_id].loyalty_points_earned = points_earned]
                          ELSE os,
               ledger |-> Append(lg,
                   [ customer_id |-> customer_id,
                     order_id |-> order_id,
                     type |-> "earned",
                     points |-> points_earned,
                     balance_after |-> new_balance,
                     adjusted_by |-> Null ]) ]

----------------------------------------------------------------------------
\* the blacklist gate of create_order
Blacklisted_Never(cs, customer_id) == FALSE

Blacklisted(cs, customer_id) ==
    customer_id \in DOMAIN cs /\ cs[customer_id].is_blacklisted

\* the redemption validation of create_order
InsufficientPoints_Never(loyalty_points_redeemed, current_points) == FALSE

InsufficientPoints(loyalty_points_redeemed, current_points) ==
    loyalty_points_redeemed > current_points

\* the redemption transaction, recorded with the points not negated
RedeemedEntry_Unsigned(customer_id, order_id, current_points, loyalty_points_redeemed) ==
    [ customer_id |-> customer_id,
      order_id |-> order_id,
      type |-> "redeemed",
      points |-> loyalty_points_redeemed,
      balance_after |-> current_points - loyalty_points_redeemed,
      adjusted_by |-> Null ]

\* the redemption transaction create_order records
RedeemedEntry(customer_id, order_id, current_points, loyalty_points_redeemed) ==
    [ customer_id |-> customer_id,
      order_id |-> order_id,
      type |-> "redeemed",
      points |-> -loyalty_points_redeemed,
      balance_after |-> current_points - loyalty_points_redeemed,
      adjusted_by |-> Null ]

(* POST /orders *)
create_order(customer_id, customer_type, total, loyalty_points_redeemed, manual_discount) ==
    /\ Handled
    /\ Len(orders) < MaxOrders
    /\ LET found == customer_id \in DOMAIN customers
           order_id == Len(orders) + 1
           current_points == IF found THEN customers[customer_id].loyalty_points ELSE 0
           doc == [ customer_id |-> customer_id,
                    customer_type |-> customer_type,
                    total |-> total,
                    manual_discount |-> manual_discount,
                    loyalty_points_redeemed |-> loyalty_points_redeemed,
                    loyalty_points_earned |-> 0,
                    status |-> "cleaning",
                    payment_status |-> "pending",
                    payment_method |-> Null,
                    timestamps |-> [ created_at |-> TRUE, cleaning_at |-> TRUE,
                                     ready_at |-> FALSE, collected_at |-> FALSE,
                                     delivered_at |-> FALSE, cancelled_at |-> FALSE ] ]
           \* the $inc of the redeemed points
           deducted == IF loyalty_points_redeemed > 0 /\ found
                       THEN [customers EXCEPT ![customer_id].loyalty_points =
                                                 @ - loyalty_points_redeemed]
                       ELSE customers
           \* the customer stats, computed from the document read at the start
           new_total_spent == (IF found THEN customers[customer_id].total_spent ELSE 0) + total
           new_total_orders == (IF found THEN customers[customer_id].total_orders ELSE 0) + 1
       IN  IF Blacklisted(customers, customer_id)
           THEN /\ response' = Reply(400, "Customer is blacklisted and cannot place orders")
                /\ UNCHANGED <<customers, orders, ledger>>
           ELSE IF loyalty_points_redeemed > 0
                   /\ InsufficientPoints(loyalty_points_redeemed, current_points)
           THEN /\ response' = Reply(400, "Insufficient loyalty points")
                /\ UNCHANGED <<customers, orders, ledger>>
           ELSE /\ ledger' = IF loyalty_points_redeemed > 0
                             THEN Append(ledger,
                                    RedeemedEntry(customer_id, order_id, current_points,
                                                  loyalty_points_redeemed))
                             ELSE ledger
                /\ orders' = Append(orders, doc)
                /\ customers' = IF found
                                THEN [deducted EXCEPT ![customer_id] =
                                        [@ EXCEPT !.total_orders = new_total_orders,
                                                  !.total_spent = new_total_spent,
                                                  !.average_order_value =
                                                      RoundDiv(new_total_spent, new_total_orders),
                                                  !.last_order_date = TRUE]]
                                ELSE deducted
                /\ response' = Reply(200, "ok")
    /\ UNCHANGED <<nextCustomerId, payments, loyalty_settings>>

\* the guard against paying an order twice
AlreadyPaid_Never(order) == FALSE

AlreadyPaid(order) == order.payment_status = "completed"

\* invoice payments are refused unless the order's customer_type is business
InvoiceRefused_Never(order, payment_method) == FALSE

InvoiceRefused(order, payment_method) ==
    payment_method = "invoice" /\ order.customer_type # "business"

\* the methods that complete at creation
ImmediateMethods_CashOnly == {"cash"}

ImmediateMethods_AlsoOnCollection == {"cash", "bank_transfer", "pay_on_collection"}

ImmediateMethods == {"cash", "bank_transfer"}

\* the order update recording the method only, payment_status left as it was
SettledOrders_MethodOnly(os, order_id, payment_method) ==
    [os EXCEPT ![order_id].payment_method = payment_method]

\* the order update of a settled payment: payment_status completed, method recorded
SettledOrders(os, order_id, payment_method) ==
    [os EXCEPT ![order_id].payment_status = "completed",
               ![order_id].payment_method = payment_method]

(* POST /payments.  session is the outcome of the gateway's                 *)
(* create_checkout_session for a card payment: "issued", or "error" when    *)
(* the call raises.  The session id issued is the payment's id.             *)
create_payment(order_id, amount, payment_method, session) ==
    /\ Handled
    /\ Len(payments) < MaxPayments
    /\ LET payment_id == Len(payments) + 1
           payment_doc == [ order_id |-> order_id,
                            amount |-> amount,
                            payment_method |-> payment_method,
                            status |-> "pending",
                            stripe_session_id |-> NoId ]
       IN  IF order_id \notin DOMAIN orders
           THEN /\ response' = Reply(404, "Order not found")
                /\ UNCHANGED <<customers, orders, payments, ledger>>
           ELSE IF AlreadyPaid(orders[order_id])
           THEN /\ response' = Reply(400, "Order already paid")
                /\ UNCHANGED <<customers, orders, payments, ledger>>
           ELSE IF InvoiceRefused(orders[order_id], payment_method)
           THEN /\ response' = Reply(400, "Invoice payment only available for business customers")
                /\ UNCHANGED <<customers, orders, payments, ledger>>
           ELSE IF payment_method = "card"
           THEN IF session = "error"
                THEN /\ response' = Reply(500, "Internal Server Error")
                     /\ UNCHANGED <<customers, orders, payments, ledger>>
                ELSE /\ payments' = Append(payments,
                                      [payment_doc EXCEPT !.stripe_session_id = payment_id])
                     /\ response' = Reply(200, "pending")
                     /\ UNCHANGED <<customers, orders, ledger>>
           ELSE IF payment_method \in ImmediateMethods
           THEN LET paid == SettledOrders(orders, order_id, payment_method)
                    awarded == award_loyalty_points(customers, paid, ledger, loyalty_settings,
                                                    orders[order_id].customer_id, order_id, amount)
                IN  /\ customers' = awarded.customers
                    /\ orders' = awarded.orders
                    /\ ledger' = awarded.ledger
                    /\ payments' = Append(payments, [payment_doc EXCEPT !.status = "completed"])
                    /\ response' = Reply(200, "completed")
           ELSE \* pay_on_collection, invoice
                /\ orders' = [orders EXCEPT ![order_id].payment_method = payment_method]
                /\ payments' = Append(payments, payment_doc)
                /\ response' = Reply(200, "pending")
                /\ UNCHANGED <<customers, ledger>>
    /\ UNCHANGED <<nextCustomerId, loyalty_settings>>

\* find_one({"stripe_session_id": session_id}): the payment's id, NoId when none
PaymentOfSession(session_id) ==
    IF \E p \in DOMAIN payments : payments[p].stripe_session_id = session_id
    THEN CHOOSE p \in DOMAIN payments : payments[p].stripe_session_id = session_id
    ELSE NoId

\* the two updates both confirmation paths make: transaction and order completed
MarkCompleted(p) ==
    /\ payments' = [payments EXCEPT ![p].status = "completed"]
    /\ orders' = [orders EXCEPT ![payments[p].order_id].payment_status = "completed",
                                ![payments[p].order_id].payment_method = "card"]

(* GET /payments/status/{session_id}; payment_status is the gateway's answer *)
get_payment_status(session_id, payment_status) ==
    /\ Handled
    /\ LET p == PaymentOfSession(session_id)
       IN  IF payment_status = "paid" /\ p # NoId /\ payments[p].status # "completed"
           THEN LET order_id == payments[p].order_id
                    paid == SettledOrders(orders, order_id, "card")
                    awarded == award_loyalty_points(customers, paid, ledger, loyalty_settings,
                                                    orders[order_id].customer_id, order_id,
                                                    payments[p].amount)
                IN  /\ payments' = [payments EXCEPT ![p].status = "completed"]
                    /\ customers' = awarded.customers
                    /\ orders' = awarded.orders
                    /\ ledger' = awarded.ledger
           ELSE UNCHANGED <<customers, orders, payments, ledger>>
    /\ response' = Reply(200, payment_status)
    /\ UNCHANGED <<nextCustomerId, loyalty_settings>>

(* POST /webhook/stripe.  event is what handle_webhook makes of the body:   *)
(* "error" when it raises (swallowed by the handler), else the session's    *)
(* payment_status.                                                          *)
stripe_webhook(session_id, event) ==
    /\ Handled
    /\ LET p == PaymentOfSession(session_id)
       IN  IF event = "paid" /\ p # NoId /\ payments[p].status # "completed"
           THEN MarkCompleted(p)
           ELSE UNCHANGED <<orders, payments>>
    /\ response' = Reply(200, "received")
    /\ UNCHANGED <<customers, nextCustomerId, ledger, loyalty_settings>>

OrderStatuses ==
    {"cleaning", "ready", "out_for_delivery", "delivered", "collected", "cancelled"}

\* the timestamp field stamped for ready, taken from the wrong branch
TimestampField_ReadyAsCleaning(status) ==
    IF status = "cleaning" THEN "cleaning_at"
    ELSE IF status = "ready" THEN "cleaning_at"
    ELSE IF status = "collected" THEN "collected_at"
    ELSE IF status = "delivered" THEN "delivered_at"
    ELSE IF status = "cancelled" THEN "cancelled_at"
    ELSE Null

\* the timestamp field update_order_status stamps for a status, Null for none
TimestampField(status) ==
    IF status = "cleaning" THEN "cleaning_at"
    ELSE IF status = "ready" THEN "ready_at"
    ELSE IF status = "collected" THEN "collected_at"
    ELSE IF status = "delivered" THEN "delivered_at"
    ELSE IF status = "cancelled" THEN "cancelled_at"
    ELSE Null

\* the status update made to refuse an order that is collected, delivered or cancelled
update_order_status_Validated(order_id, status) ==
    /\ Handled
    /\ IF order_id \notin DOMAIN orders
       THEN /\ response' = Reply(404, "Order not found")
            /\ UNCHANGED orders
       ELSE IF orders[order_id].status \in {"collected", "delivered", "cancelled"}
       THEN /\ response' = Reply(400, "Invalid status transition")
            /\ UNCHANGED orders
       ELSE /\ orders' = [orders EXCEPT ![order_id].status = status]
            /\ response' = Reply(200, "ok")
    /\ UNCHANGED <<customers, nextCustomerId, payments, ledger, loyalty_settings>>

(* PUT /orders/{order_id}/status *)
update_order_status(order_id, status) ==
    /\ Handled
    /\ IF order_id \notin DOMAIN orders
       THEN /\ response' = Reply(404, "Order not found")
            /\ UNCHANGED orders
       ELSE LET timestamp_field == TimestampField(status)
            IN  /\ orders' = [orders EXCEPT
                      ![order_id].status = status,
                      ![order_id].timestamps =
                          [f \in DOMAIN @ |-> IF f = timestamp_field THEN TRUE ELSE @[f]]]
                /\ response' = Reply(200, "ok")
    /\ UNCHANGED <<customers, nextCustomerId, payments, ledger, loyalty_settings>>

(* The bounded request payloads *)

CustomerIds == (1 .. (nextCustomerId - 1)) \cup {UnknownCustomer}

\* the modelled POST /customers payloads: the defaults, or one field changed
NewCustomers ==
    { n \in [customer_type : CustomerTypes, is_blacklisted : BOOLEAN,
             loyalty_excluded : BOOLEAN] :
        Cardinality({k \in {1, 2, 3} :
                        \/ (k = 1 /\ n.customer_type = "business")
                        \/ (k = 2 /\ n.is_blacklisted)
                        \/ (k = 3 /\ n.loyalty_excluded)}) <= 1 }

CustomerUpdateKeys == {"customer_type", "is_blacklisted", "loyalty_excluded"}
\* the modelled payloads provide no key or one key
CustomerUpdateFields == {{}} \cup {{k} : k \in CustomerUpdateKeys}
\* the payloads that provide exactly the keys in fields
CustomerUpdateValues(fields) ==
    { u \in [customer_type : CustomerTypes, is_blacklisted : BOOLEAN,
             loyalty_excluded : BOOLEAN] :
        /\ "customer_type" \notin fields => u.customer_type = "retail"
        /\ "is_blacklisted" \notin fields => ~u.is_blacklisted
        /\ "loyalty_excluded" \notin fields => ~u.loyalty_excluded }

OrderIds == (1 .. Len(orders)) \cup {UnknownOrder}
\* the sessions the gateway issued
IssuedSessions == {payments[p].stripe_session_id : p \in DOMAIN payments} \ {NoId}
\* a webhook may also name a session no stored payment has
SessionIds == IssuedSessions \cup {UnknownSession}

\* the settings fields the modelled updates provide, and the values provided
SettingsUpdateKeys == {"enabled", "exclude_business_customers"}
SettingsUpdateValues ==
    { [DefaultLoyaltySettings EXCEPT !.enabled = FALSE,
                                     !.points_per_dollar = 200,
                                     !.exclude_business_customers = FALSE] }

Next ==
    \/ \E n \in NewCustomers :
          create_customer(n.customer_type, n.is_blacklisted, n.loyalty_excluded)
    \/ \E c \in CustomerIds, f \in CustomerUpdateFields :
          \E u \in CustomerUpdateValues(f) : update_customer(c, f, u)
    \/ \E c \in CustomerIds : delete_customer(c)
    \/ \E u \in Users, f \in SUBSET SettingsUpdateKeys, v \in SettingsUpdateValues :
          update_loyalty_settings(u, f, v)
    \/ \E u \in Users, c \in CustomerIds, a \in AdjustChoices :
          adjust_loyalty_points(u, c, a)
    \/ \E c \in CustomerIds, t \in CustomerTypes, tot \in OrderTotals, r \in RedeemChoices :
          create_order(c, t, tot, r, 0)
    \/ \E o \in OrderIds, a \in PaymentAmounts, m \in PaymentMethods :
          \E g \in (IF m = "card" THEN {"issued", "error"} ELSE {"issued"}) :
             create_payment(o, a, m, g)
    \/ \E sid \in IssuedSessions, st \in {"paid", "unpaid"} : get_payment_status(sid, st)
    \/ \E sid \in SessionIds, ev \in {"paid", "unpaid", "error"} : stripe_webhook(sid, ev)

Spec == Init /\ [][Next]_vars

\* order totals whose averages do not all fall on a whole cent
UnevenTotals == {250, 251}

\* the requests of Next that touch customers and orders, with the uneven totals
NextAggregates ==
    \/ \E n \in NewCustomers :
          create_customer(n.customer_type, n.is_blacklisted, n.loyalty_excluded)
    \/ \E c \in CustomerIds, f \in CustomerUpdateFields :
          \E u \in CustomerUpdateValues(f) : update_customer(c, f, u)
    \/ \E c \in CustomerIds : delete_customer(c)
    \/ \E u \in Users, c \in CustomerIds, a \in AdjustChoices :
          adjust_loyalty_points(u, c, a)
    \/ \E c \in CustomerIds, t \in CustomerTypes, tot \in UnevenTotals, r \in RedeemChoices :
          create_order(c, t, tot, r, 0)
    \/ \E o \in OrderIds, a \in PaymentAmounts, m \in PaymentMethods :
          \E g \in (IF m = "card" THEN {"issued", "error"} ELSE {"issued"}) :
             create_payment(o, a, m, g)
    \/ \E sid \in IssuedSessions, st \in {"paid", "unpaid"} : get_payment_status(sid, st)

SpecAggregates == Init /\ [][NextAggregates]_vars

\* manual adjustments: removals larger and smaller than a balance, none, an addition
AdjustDeltas == {-3, -1, 0, 2}

\* a customer, an order paid in cash (which earns the points), and adjustments
NextAdjust ==
    \/ \E n \in NewCustomers :
          create_customer(n.customer_type, n.is_blacklisted, n.loyalty_excluded)
    \/ \E c \in CustomerIds, t \in CustomerTypes, tot \in OrderTotals, r \in RedeemChoices :
          create_order(c, t, tot, r, 0)
    \/ \E o \in OrderIds, a \in PaymentAmounts : create_payment(o, a, "cash", "issued")
    \/ \E u \in Users, c \in CustomerIds, d \in AdjustDeltas :
          adjust_loyalty_points(u, c, d)

SpecAdjust == Init /\ [][NextAdjust]_vars

\* the order lifecycle: customers, their edits and deletion, orders, status updates
NextStatus ==
    \/ \E n \in NewCustomers :
          create_customer(n.customer_type, n.is_blacklisted, n.loyalty_excluded)
    \/ \E c \in CustomerIds, f \in CustomerUpdateFields :
          \E u \in CustomerUpdateValues(f) : update_customer(c, f, u)
    \/ \E c \in CustomerIds : delete_customer(c)
    \/ \E c \in CustomerIds, t \in CustomerTypes, tot \in OrderTotals :
          create_order(c, t, tot, 0, 0)
    \/ \E o \in OrderIds, st \in OrderStatuses : update_order_status(o, st)

SpecStatus == Init /\ [][NextStatus]_vars

----------------------------------------------------------------------------
(* The accrual on its own: a customer whose balance came from a manual      *)
(* adjustment, stored settings with tiers and a points_per_dollar rate, and *)
(* one unpaid order of that customer; the payment requests then run the     *)
(* accrual on them.                                                         *)

AccrualBalances == 0 .. 5
\* points_per_dollar, in hundredths
AccrualRates == {100, 150}
\* payment amounts, in cents
AccrualAmounts == {250, 480}
\* tier lists as stored (not sorted); multipliers in hundredths
TierSets ==
    { <<>>,
      << [name |-> "Gold", min_points |-> 3, multiplier |-> 150] >>,
      << [name |-> "Bronze", min_points |-> 0, multiplier |-> 100],
         [name |-> "Gold", min_points |-> 4, multiplier |-> 200],
         [name |-> "Silver", min_points |-> 2, multiplier |-> 125] >> }

InitAccrual ==
    /\ \E b \in AccrualBalances, ts \in TierSets, ppd \in AccrualRates :
          /\ customers = [c \in {1} |->
                            [ customer_type |-> "retail",
                              is_blacklisted |-> FALSE,
                              loyalty_excluded |-> FALSE,
                              loyalty_points |-> b,
                              total_orders |-> 1,
                              total_spent |-> 250,
                              average_order_value |-> 250,
                              last_order_date |-> TRUE ]]
          /\ ledger = IF b > 0
                      THEN << [ customer_id |-> 1, order_id |-> NoId, type |-> "adjustment",
                                points |-> b, balance_after |-> b,
                                adjusted_by |-> "u_admin" ] >>
                      ELSE <<>>
          /\ loyalty_settings = [d \in {"default"} |->
                                    [DefaultLoyaltySettings EXCEPT !.tiers = ts,
                                                                   !.points_per_dollar = ppd]]
    /\ nextCustomerId = 2
    /\ orders = << [ customer_id |-> 1,
                     customer_type |-> "retail",
                     total |-> 250,
                     manual_discount |-> 0,
                     loyalty_points_redeemed |-> 0,
                     loyalty_points_earned |-> 0,
                     status |-> "cleaning",
                     payment_status |-> "pending",
                     payment_method |-> Null,
                     timestamps |-> [ created_at |-> TRUE, cleaning_at |-> TRUE,
                                      ready_at |-> FALSE, collected_at |-> FALSE,
                                      delivered_at |-> FALSE, cancelled_at |-> FALSE ] ] >>
    /\ payments = <<>>
    /\ response = Reply(200, "ok")
    /\ requests = 0
    /\ inflight = <<>>

NextAccrual ==
    \/ \E o \in OrderIds, a \in AccrualAmounts, m \in PaymentMethods :
          create_payment(o, a, m, "issued")
    \/ \E sid \in IssuedSessions, st \in {"paid", "unpaid"} : get_payment_status(sid, st)

SpecAccrual == InitAccrual /\ [][NextAccrual]_vars

----------------------------------------------------------------------------
(* POST /loyalty/calculate-redemption.  Amounts are in cents, the           *)
(* redemption_rate in cents per point, max_redemption_percent in percent;   *)
(* the discounts are carried in hundredths of a cent until they are rounded *)
(* for the reply.                                                           *)

\* a reply whose detail is formatted with a number
ReplyWith(code, detail, arg) == [code |-> code, detail |-> detail, arg |-> arg]

\* the validations with the minimum checked before the available points
PreviewRefusal_MinimumFirst(customer, settings, points_to_redeem) ==
    IF ~settings.enabled
    THEN Reply(400, "Loyalty program is not enabled")
    ELSE IF \/ customer.loyalty_excluded
            \/ customer.customer_type = "business" /\ settings.exclude_business_customers
    THEN Reply(400, "Customer is excluded from loyalty program")
    ELSE IF points_to_redeem < settings.min_redemption_points
    THEN ReplyWith(400, "Minimum points required for redemption", settings.min_redemption_points)
    ELSE IF points_to_redeem > customer.loyalty_points
    THEN ReplyWith(400, "Insufficient points. Available", customer.loyalty_points)
    ELSE Reply(200, "ok")

\* the validations of calculate_loyalty_redemption, in the order of the code:
\* the error raised, Reply(200, "ok") when none is
PreviewRefusal(customer, settings, points_to_redeem) ==
    IF ~settings.enabled
    THEN Reply(400, "Loyalty program is not enabled")
    ELSE IF \/ customer.loyalty_excluded
            \/ customer.customer_type = "business" /\ settings.exclude_business_customers
    THEN Reply(400, "Customer is excluded from loyalty program")
    ELSE IF points_to_redeem > customer.loyalty_points
    THEN ReplyWith(400, "Insufficient points. Available", customer.loyalty_points)
    ELSE IF points_to_redeem < settings.min_redemption_points
    THEN ReplyWith(400, "Minimum points required for redemption", settings.min_redemption_points)
    ELSE Reply(200, "ok")

Min(a, b) == IF a <= b THEN a ELSE b

\* actual_discount / redemption_rate is a binary floating point division: for
\* these discounts (hundredths of a cent) and rates (cents per point) the
\* computed quotient is just below the whole number the exact division gives:
\* 8.1 / 0.05 = 161.99999999999997
QuotientFallsShort == { <<81000, 5>> }

\* int(actual_discount / redemption_rate)
PointsUsed(actual_discount, redemption_rate) ==
    IF <<actual_discount, redemption_rate>> \in QuotientFallsShort
    THEN actual_discount \div (100 * redemption_rate) - 1
    ELSE actual_discount \div (100 * redemption_rate)

\* the body calculate_loyalty_redemption returns for a valid request
PreviewBody(customer, settings, order_total, points_to_redeem) ==
    LET available_points == customer.loyalty_points
        discount_value == points_to_redeem * settings.redemption_rate * 100
        max_discount == order_total * settings.max_redemption_percent
        actual_discount == Min(discount_value, max_discount)
        actual_points_used == PointsUsed(actual_discount, settings.redemption_rate)
    IN  [ code |-> 200,
          detail |-> "ok",
          points_available |-> available_points,
          points_requested |-> points_to_redeem,
          points_to_use |-> actual_points_used,
          discount_value |-> RoundDiv(actual_discount, 100),
          max_discount_allowed |-> RoundDiv(max_discount, 100),
          order_total |-> order_total,
          new_total |-> RoundDiv(100 * order_total - actual_discount, 100),
          remaining_points |-> available_points - actual_points_used ]

\* what calculate_loyalty_redemption answers
PreviewReply(customer_id, order_total, points_to_redeem) ==
    IF customer_id \notin DOMAIN customers
    THEN Reply(404, "Customer not found")
    ELSE LET customer == customers[customer_id]
             settings == IF "default" \in DOMAIN loyalty_settings
                         THEN loyalty_settings["default"]
                         ELSE DefaultLoyaltySettings
             refusal == PreviewRefusal(customer, settings, points_to_redeem)
         IN  IF refusal.code # 200
             THEN refusal
             ELSE PreviewBody(customer, settings, order_total, points_to_redeem)

\* the preview made to deduct the points it reports as used
calculate_loyalty_redemption_Redeems(customer_id, order_total, points_to_redeem) ==
    /\ Handled
    /\ response' = PreviewReply(customer_id, order_total, points_to_redeem)
    /\ customers' = IF response'.code = 200
                    THEN [customers EXCEPT ![customer_id].loyalty_points =
                                              response'.remaining_points]
                    ELSE customers
    /\ UNCHANGED <<nextCustomerId, orders, payments, ledger, loyalty_settings>>

calculate_loyalty_redemption(customer_id, order_total, points_to_redeem) ==
    /\ Handled
    /\ response' = PreviewReply(customer_id, order_total, points_to_redeem)
    /\ UNCHANGED <<customers, nextCustomerId, orders, payments, ledger, loyalty_settings>>

PreviewBalances == {0, 50, 200}
\* order totals, in cents
PreviewTotals == {1000, 10000}
PreviewPoints == {50, 100, 162, 200}
\* the settings documents stored before the previews
PreviewSettings ==
    { DefaultLoyaltySettings,
      [DefaultLoyaltySettings EXCEPT !.enabled = FALSE],
      [DefaultLoyaltySettings EXCEPT !.exclude_business_customers = FALSE],
      [DefaultLoyaltySettings EXCEPT !.min_redemption_points = 50] }

\* one customer whose balance came from a manual adjustment, and the settings
\* stored or not
InitPreview ==
    /\ \E b \in PreviewBalances, t \in CustomerTypes, x \in BOOLEAN :
          /\ customers = [c \in {1} |->
                            [ customer_type |-> t,
                              is_blacklisted |-> FALSE,
                              loyalty_excluded |-> x,
                              loyalty_points |-> b,
                              total_orders |-> 0,
                              total_spent |-> 0,
                              average_order_value |-> 0,
                              last_order_date |-> FALSE ]]
          /\ ledger = IF b > 0
                      THEN << [ customer_id |-> 1, order_id |-> NoId, type |-> "adjustment",
                                points |-> b, balance_after |-> b,
                                adjusted_by |-> "u_admin" ] >>
                      ELSE <<>>
    /\ loyalty_settings \in {<<>>} \cup {[d \in {"default"} |-> st] : st \in PreviewSettings}
    /\ nextCustomerId = 2
    /\ orders = <<>>
    /\ payments = <<>>
    /\ response = Reply(200, "ok")
    /\ requests = 0
    /\ inflight = <<>>

NextPreview ==
    \/ \E c \in CustomerIds, tot \in PreviewTotals, pts \in PreviewPoints :
          calculate_loyalty_redemption(c, tot, pts)
    \/ \E c \in CustomerIds, f \in CustomerUpdateFields :
          \E u \in CustomerUpdateValues(f) : update_customer(c, f, u)
    \/ \E u \in Users, f \in SUBSET SettingsUpdateKeys, v \in SettingsUpdateValues :
          update_loyalty_settings(u, f, v)

SpecPreview == InitPreview /\ [][NextPreview]_vars

----------------------------------------------------------------------------
(* POST /orders, one storage call at a time.  The handler suspends on every *)
(* storage round trip, so other requests run between its calls, and a call  *)
(* that raises (the store is unreachable) ends the handler with a 500:      *)
(* nothing the handler did before is undone.  A request in flight holds the *)
(* customer document it read at its start; applied is the set of storage    *)
(* writes it has made.                                                      *)

\* the writes of a create_order that runs to its end
OrderWrites(loyalty_points_redeemed) ==
    IF loyalty_points_redeemed > 0
    THEN {"deduct", "ledger", "insert", "stats"}
    ELSE {"insert", "stats"}

\* the request moves on to its next storage call
Proceed(k, pc, write) ==
    inflight' = [inflight EXCEPT ![k].pc = pc, ![k].applied = @ \cup {write}]

\* uuid4(): the first id that no stored order and no request in flight holds
FreshOrderId ==
    LET known == (DOMAIN orders) \cup {inflight[k].order_id : k \in DOMAIN inflight}
    IN  CHOOSE n \in 1 .. (Cardinality(known) + 1) :
           n \notin known /\ \A m \in 1 .. (n - 1) : m \in known

\* find_one of the customer and the two validations
order_begin(customer_id, customer_type, total, loyalty_points_redeemed) ==
    /\ Accepted
    /\ Len(inflight) < MaxOrders
    /\ LET found == customer_id \in DOMAIN customers
           current_points == IF found THEN customers[customer_id].loyalty_points ELSE 0
       IN  IF Blacklisted(customers, customer_id)
           THEN /\ response' = Reply(400, "Customer is blacklisted and cannot place orders")
                /\ UNCHANGED inflight
           ELSE IF loyalty_points_redeemed > 0
                   /\ InsufficientPoints(loyalty_points_redeemed, current_points)
           THEN /\ response' = Reply(400, "Insufficient loyalty points")
                /\ UNCHANGED inflight
           ELSE /\ inflight' = Append(inflight,
                      [ pc |-> IF loyalty_points_redeemed > 0 THEN "deduct" ELSE "insert",
                        handler |-> "create_order",
                        order_id |-> FreshOrderId,
                        customer_id |-> customer_id,
                        customer_type |-> customer_type,
                        total |-> total,
                        loyalty_points_redeemed |-> loyalty_points_redeemed,
                        current_points |-> current_points,
                        total_spent |-> IF found THEN customers[customer_id].total_spent ELSE 0,
                        total_orders |-> IF found THEN customers[customer_id].total_orders ELSE 0,
                        applied |-> {} ])
                /\ UNCHANGED response
    /\ UNCHANGED <<customers, nextCustomerId, orders, payments, ledger, loyalty_settings>>

\* update_one with $inc of -loyalty_points_redeemed
order_deduct(k) ==
    /\ inflight[k].pc = "deduct"
    /\ LET x == inflight[k]
       IN  customers' = IF x.customer_id \in DOMAIN customers
                        THEN [customers EXCEPT ![x.customer_id].loyalty_points =
                                                  @ - x.loyalty_points_redeemed]
                        ELSE customers
    /\ Proceed(k, "ledger", "deduct")
    /\ UNCHANGED <<nextCustomerId, orders, payments, ledger, loyalty_settings, response, requests>>

\* insert_one of the redeemed transaction
order_ledger(k) ==
    /\ inflight[k].pc = "ledger"
    /\ LET x == inflight[k]
       IN  ledger' = Append(ledger,
               RedeemedEntry(x.customer_id, x.order_id, x.current_points,
                             x.loyalty_points_redeemed))
    /\ Proceed(k, "insert", "ledger")
    /\ UNCHANGED <<customers, nextCustomerId, orders, payments, loyalty_settings, response, requests>>

\* insert_one of the order document
order_insert(k) ==
    /\ inflight[k].pc = "insert"
    /\ LET x == inflight[k]
           doc == [ customer_id |-> x.customer_id,
                    customer_type |-> x.customer_type,
                    total |-> x.total,
                    manual_discount |-> 0,
                    loyalty_points_redeemed |-> x.loyalty_points_redeemed,
                    loyalty_points_earned |-> 0,
                    status |-> "cleaning",
                    payment_status |-> "pending",
                    payment_method |-> Null,
                    timestamps |-> [ created_at |-> TRUE, cleaning_at |-> TRUE,
                                     ready_at |-> FALSE, collected_at |-> FALSE,
                                     delivered_at |-> FALSE, cancelled_at |-> FALSE ] ]
       IN  orders' = [o \in (DOMAIN orders) \cup {x.order_id} |->
                         IF o = x.order_id THEN doc ELSE orders[o]]
    /\ Proceed(k, "stats", "insert")
    /\ UNCHANGED <<customers, nextCustomerId, payments, ledger, loyalty_settings, response, requests>>

\* the customer stats raised from their stored values, as a $inc would
order_stats_Increment(k) ==
    /\ inflight[k].pc = "stats"
    /\ LET x == inflight[k]
       IN  customers' = IF x.customer_id \in DOMAIN customers
                        THEN [customers EXCEPT ![x.customer_id] =
                                [@ EXCEPT !.total_orders = @ + 1,
                                          !.total_spent = @ + x.total,
                                          !.average_order_value =
                                              RoundDiv(customers[x.customer_id].total_spent
                                                          + x.total,
                                                       customers[x.customer_id].total_orders + 1),
                                          !.last_order_date = TRUE]]
                        ELSE customers
    /\ Proceed(k, "done", "stats")
    /\ response' = Reply(200, "ok")
    /\ UNCHANGED <<nextCustomerId, orders, payments, ledger, loyalty_settings, requests>>

\* update_one with $set of the customer stats, computed from the document read
\* at the start, and the reply
order_stats(k) ==
    /\ inflight[k].pc = "stats"
    /\ LET x == inflight[k]
           new_total_spent == x.total_spent + x.total
           new_total_orders == x.total_orders + 1
       IN  customers' = IF x.customer_id \in DOMAIN customers
                        THEN [customers EXCEPT ![x.customer_id] =
                                [@ EXCEPT !.total_orders = new_total_orders,
                                          !.total_spent = new_total_spent,
                                          !.average_order_value =
                                              RoundDiv(new_total_spent, new_total_orders),
                                          !.last_order_date = TRUE]]
                        ELSE customers
    /\ Proceed(k, "done", "stats")
    /\ response' = Reply(200, "ok")
    /\ UNCHANGED <<nextCustomerId, orders, payments, ledger, loyalty_settings, requests>>

\* the storage call the request is suspended on raises: the handler ends there
order_fail(k) ==
    /\ inflight[k].pc \in {"deduct", "ledger", "insert", "stats"}
    /\ inflight' = [inflight EXCEPT ![k].pc = "failed"]
    /\ response' = Reply(500, "Internal Server Error")
    /\ UNCHANGED <<customers, nextCustomerId, orders, payments, ledger, loyalty_settings, requests>>

NextSteps ==
    \/ \E n \in NewCustomers :
          create_customer(n.customer_type, n.is_blacklisted, n.loyalty_excluded)
    \/ \E c \in CustomerIds : delete_customer(c)
    \/ \E u \in Users, c \in CustomerIds, a \in AdjustChoices :
          adjust_loyalty_points(u, c, a)
    \/ \E c \in CustomerIds, t \in CustomerTypes, tot \in OrderTotals, r \in RedeemChoices :
          order_begin(c, t, tot, r)
    \/ \E k \in DOMAIN inflight : order_deduct(k)
    \/ \E k \in DOMAIN inflight : order_ledger(k)
    \/ \E k \in DOMAIN inflight : order_insert(k)
    \/ \E k \in DOMAIN inflight : order_stats(k)
    \/ \E k \in DOMAIN inflight : order_fail(k)

SpecSteps == Init /\ [][NextSteps]_vars

----------------------------------------------------------------------------
(* The two confirmations of a card payment, one storage call at a time:     *)
(* GET /payments/status/{session_id} and POST /webhook/stripe.  A request   *)
(* in flight holds the transaction it read at its start and, in the         *)
(* accrual, the balance it read; applied is the set of storage writes it    *)
(* has made.  A storage call that raises ends get_payment_status with a     *)
(* 500; stripe_webhook catches it and acknowledges.                         *)

\* the confirmations followed together
MaxConfirmations == 2

\* the context of a confirmation that found transaction p not completed
Confirmation(handler, p) ==
    [ pc |-> "tx",
      handler |-> handler,
      payment |-> p,
      order_id |-> payments[p].order_id,
      amount |-> payments[p].amount,
      customer_id |-> NoId,
      current_points |-> 0,
      points_earned |-> 0,
      applied |-> {} ]

\* get_checkout_status, then find_one of the transaction and the guard on its status
status_begin(session_id, payment_status) ==
    /\ Accepted
    /\ Len(inflight) < MaxConfirmations
    /\ LET p == PaymentOfSession(session_id)
       IN  IF payment_status = "error"
           THEN /\ response' = Reply(500, "Internal Server Error")
                /\ UNCHANGED inflight
           ELSE IF payment_status = "paid" /\ p # NoId /\ payments[p].status # "completed"
           THEN /\ inflight' = Append(inflight, Confirmation("get_payment_status", p))
                /\ UNCHANGED response
           ELSE /\ response' = Reply(200, payment_status)
                /\ UNCHANGED inflight
    /\ UNCHANGED <<customers, nextCustomerId, orders, payments, ledger, loyalty_settings>>

\* the transaction update made only while the transaction is not yet completed
status_tx_Conditional(k) ==
    /\ inflight[k].handler = "get_payment_status"
    /\ inflight[k].pc = "tx"
    /\ IF payments[inflight[k].payment].status = "completed"
       THEN /\ inflight' = [inflight EXCEPT ![k].pc = "done"]
            /\ response' = Reply(200, "paid")
            /\ UNCHANGED payments
       ELSE /\ payments' = [payments EXCEPT ![inflight[k].payment].status = "completed"]
            /\ Proceed(k, "order", "tx")
            /\ UNCHANGED response
    /\ UNCHANGED <<customers, nextCustomerId, orders, ledger, loyalty_settings, requests>>

\* update_one of the transaction: status completed
status_tx(k) ==
    /\ inflight[k].handler = "get_payment_status"
    /\ inflight[k].pc = "tx"
    /\ payments' = [payments EXCEPT ![inflight[k].payment].status = "completed"]
    /\ Proceed(k, "order", "tx")
    /\ UNCHANGED <<customers, nextCustomerId, orders, ledger, loyalty_settings, response, requests>>

\* update_one of the order: payment_status completed, payment_method card
status_order(k) ==
    /\ inflight[k].handler = "get_payment_status"
    /\ inflight[k].pc = "order"
    /\ orders' = SettledOrders(orders, inflight[k].order_id, "card")
    /\ Proceed(k, "reread", "order")
    /\ UNCHANGED <<customers, nextCustomerId, payments, ledger, loyalty_settings, response, requests>>

\* find_one of the order, for its customer_id
status_reread(k) ==
    /\ inflight[k].handler = "get_payment_status"
    /\ inflight[k].pc = "reread"
    /\ inflight' = [inflight EXCEPT ![k].pc = "award",
                                    ![k].customer_id = orders[inflight[k].order_id].customer_id]
    /\ UNCHANGED <<customers, nextCustomerId, orders, payments, ledger, loyalty_settings,
                   response, requests>>

\* award_loyalty_points: find_one of the customer and of the settings, the early
\* returns and the points computed from the balance read
award_read(k) ==
    /\ inflight[k].pc = "award"
    /\ LET x == inflight[k]
       IN  IF AwardSkipped(customers, loyalty_settings, x.customer_id, x.amount)
           THEN /\ inflight' = [inflight EXCEPT ![k].pc = "done"]
                /\ response' = Reply(200, "paid")
           ELSE LET current_points == customers[x.customer_id].loyalty_points
                IN  /\ inflight' = [inflight EXCEPT
                          ![k].pc = "balance",
                          ![k].current_points = current_points,
                          ![k].points_earned =
                              PointsEarned(x.amount,
                                  SettingsGet(loyalty_settings, "points_per_dollar", 100),
                                  TierMultiplier(SettingsGet(loyalty_settings, "tiers", <<>>),
                                                 current_points))]
                    /\ UNCHANGED response
    /\ UNCHANGED <<customers, nextCustomerId, orders, payments, ledger, loyalty_settings, requests>>

\* award_loyalty_points: update_one with $set of loyalty_points to new_balance
award_balance(k) ==
    /\ inflight[k].pc = "balance"
    /\ LET x == inflight[k]
       IN  customers' = IF x.customer_id \in DOMAIN customers
                        THEN [customers EXCEPT ![x.customer_id].loyalty_points =
                                                  x.current_points + x.points_earned]
                        ELSE customers
    /\ Proceed(k, "earned", "balance")
    /\ UNCHANGED <<nextCustomerId, orders, payments, ledger, loyalty_settings, response, requests>>

\* award_loyalty_points: update_one with $set of the order's loyalty_points_earned
award_order(k) ==
    /\ inflight[k].pc = "earned"
    /\ orders' = [orders EXCEPT ![inflight[k].order_id].loyalty_points_earned =
                                   inflight[k].points_earned]
    /\ Proceed(k, "entry", "earned")
    /\ UNCHANGED <<customers, nextCustomerId, payments, ledger, loyalty_settings, response, requests>>

\* award_loyalty_points: insert_one of the earned transaction; the handler replies
award_ledger(k) ==
    /\ inflight[k].pc = "entry"
    /\ LET x == inflight[k]
       IN  ledger' = Append(ledger,
               [ customer_id |-> x.customer_id,
                 order_id |-> x.order_id,
                 type |-> "earned",
                 points |-> x.points_earned,
                 balance_after |-> x.current_points + x.points_earned,
                 adjusted_by |-> Null ])
    /\ Proceed(k, "done", "entry")
    /\ response' = Reply(200, "paid")
    /\ UNCHANGED <<customers, nextCustomerId, orders, payments, loyalty_settings, requests>>

\* the storage call get_payment_status is suspended on raises
status_fail(k) ==
    /\ inflight[k].handler = "get_payment_status"
    /\ inflight[k].pc \in {"tx", "order", "reread", "award", "balance", "earned", "entry"}
    /\ inflight' = [inflight EXCEPT ![k].pc = "failed"]
    /\ response' = Reply(500, "Internal Server Error")
    /\ UNCHANGED <<customers, nextCustomerId, orders, payments, ledger, loyalty_settings, requests>>

\* handle_webhook, then find_one of the transaction and the guard on its status
webhook_begin(session_id, event) ==
    /\ Accepted
    /\ Len(inflight) < MaxConfirmations
    /\ LET p == PaymentOfSession(session_id)
       IN  IF event = "paid" /\ p # NoId /\ payments[p].status # "completed"
           THEN /\ inflight' = Append(inflight, Confirmation("stripe_webhook", p))
                /\ UNCHANGED response
           ELSE /\ response' = Reply(200, "received")
                /\ UNCHANGED inflight
    /\ UNCHANGED <<customers, nextCustomerId, orders, payments, ledger, loyalty_settings>>

\* update_one of the transaction: status completed
webhook_tx(k) ==
    /\ inflight[k].handler = "stripe_webhook"
    /\ inflight[k].pc = "tx"
    /\ payments' = [payments EXCEPT ![inflight[k].payment].status = "completed"]
    /\ Proceed(k, "order", "tx")
    /\ UNCHANGED <<customers, nextCustomerId, orders, ledger, loyalty_settings, response, requests>>

\* update_one of the order, and the acknowledgement
webhook_order(k) ==
    /\ inflight[k].handler = "stripe_webhook"
    /\ inflight[k].pc = "order"
    /\ orders' = SettledOrders(orders, inflight[k].order_id, "card")
    /\ Proceed(k, "done", "order")
    /\ response' = Reply(200, "received")
    /\ UNCHANGED <<customers, nextCustomerId, payments, ledger, loyalty_settings, requests>>

\* the storage call raises and the error reaches the gateway
webhook_fail_Surfaces(k) ==
    /\ inflight[k].handler = "stripe_webhook"
    /\ inflight[k].pc \in {"tx", "order"}
    /\ inflight' = [inflight EXCEPT ![k].pc = "failed"]
    /\ response' = Reply(500, "Internal Server Error")
    /\ UNCHANGED <<customers, nextCustomerId, orders, payments, ledger, loyalty_settings, requests>>

\* the storage call stripe_webhook is suspended on raises: except Exception logs
\* the error and acknowledges
webhook_fail(k) ==
    /\ inflight[k].handler = "stripe_webhook"
    /\ inflight[k].pc \in {"tx", "order"}
    /\ inflight' = [inflight EXCEPT ![k].pc = "failed"]
    /\ response' = Reply(200, "received")
    /\ UNCHANGED <<customers, nextCustomerId, orders, payments, ledger, loyalty_settings, requests>>

(* A customer with an unpaid order and the pending card payment for it,     *)
(* whose session the gateway has issued.                                    *)
InitConfirm ==
    /\ \E excluded \in BOOLEAN, b \in {0, 2} :
          /\ customers = [c \in {1} |->
                            [ customer_type |-> "retail",
                              is_blacklisted |-> FALSE,
                              loyalty_excluded |-> excluded,
                              loyalty_points |-> b,
                              total_orders |-> 1,
                              total_spent |-> 250,
                              average_order_value |-> 250,
                              last_order_date |-> TRUE ]]
          /\ ledger = IF b > 0
                      THEN << [ customer_id |-> 1, order_id |-> NoId, type |-> "adjustment",
                                points |-> b, balance_after |-> b,
                                adjusted_by |-> "u_admin" ] >>
                      ELSE <<>>
    /\ nextCustomerId = 2
    /\ orders = << [ customer_id |-> 1,
                     customer_type |-> "retail",
                     total |-> 250,
                     manual_discount |-> 0,
                     loyalty_points_redeemed |-> 0,
                     loyalty_points_earned |-> 0,
                     status |-> "cleaning",
                     payment_status |-> "pending",
                     payment_method |-> Null,
                     timestamps |-> [ created_at |-> TRUE, cleaning_at |-> TRUE,
                                      ready_at |-> FALSE, collected_at |-> FALSE,
                                      delivered_at |-> FALSE, cancelled_at |-> FALSE ] ] >>
    /\ payments = << [ order_id |-> 1,
                       amount |-> 250,
                       payment_method |-> "card",
                       status |-> "pending",
                       stripe_session_id |-> 1 ] >>
    /\ loyalty_settings = <<>>
    /\ response = Reply(200, "pending")
    /\ requests = 0
    /\ inflight = <<>>

NextConfirm ==
    \/ \E sid \in IssuedSessions, st \in {"paid", "unpaid", "error"} : status_begin(sid, st)
    \/ \E k \in DOMAIN inflight : status_tx(k)
    \/ \E k \in DOMAIN inflight : status_order(k)
    \/ \E k \in DOMAIN inflight : status_reread(k)
    \/ \E k \in DOMAIN inflight : award_read(k)
    \/ \E k \in DOMAIN inflight : award_balance(k)
    \/ \E k \in DOMAIN inflight : award_order(k)
    \/ \E k \in DOMAIN inflight : award_ledger(k)
    \/ \E k \in DOMAIN inflight : status_fail(k)
    \/ \E sid \in SessionIds, ev \in {"paid", "unpaid", "error"} : webhook_begin(sid, ev)
    \/ \E k \in DOMAIN inflight : webhook_tx(k)
    \/ \E k \in DOMAIN inflight : webhook_order(k)
    \/ \E k \in DOMAIN inflight : webhook_fail(k)

SpecConfirm == InitConfirm /\ [][NextConfirm]_vars

----------------------------------------------------------------------------
(* calculate_volume_discount(item_id, quantity, volume_discounts): a pure   *)
(* function of the quantity and the tier list (item_id is not used).  No    *)
(* handler calls it; the calls are drawn and the function applied to them.  *)

\* the tiers sorted by min_quantity, highest first (sorted(..., reverse=True) is
\* stable: tiers of equal min_quantity keep their order)
RECURSIVE SortedDiscounts(_)
SortedDiscounts(volume_discounts) ==
    IF volume_discounts = <<>> THEN <<>>
    ELSE LET vds == volume_discounts
             first == CHOOSE i \in DOMAIN vds :
                         /\ \A j \in DOMAIN vds : vds[j].min_quantity <= vds[i].min_quantity
                         /\ \A j \in 1 .. (i - 1) : vds[j].min_quantity < vds[i].min_quantity
             rest == [k \in 1 .. (Len(vds) - 1) |-> IF k < first THEN vds[k] ELSE vds[k + 1]]
         IN  <<vds[first]>> \o SortedDiscounts(rest)

\* the scan adding up every tier the quantity satisfies
RECURSIVE ScanDiscounts_Stacked(_, _)
ScanDiscounts_Stacked(sorted, quantity) ==
    IF sorted = <<>> THEN 0
    ELSE (IF quantity >= Head(sorted).min_quantity THEN Head(sorted).discount_percent ELSE 0)
            + ScanDiscounts_Stacked(Tail(sorted), quantity)

\* the descending scan: the first tier the quantity satisfies, 0 when none
RECURSIVE ScanDiscounts(_, _)
ScanDiscounts(sorted, quantity) ==
    IF sorted = <<>> THEN 0
    ELSE IF quantity >= Head(sorted).min_quantity THEN Head(sorted).discount_percent
    ELSE ScanDiscounts(Tail(sorted), quantity)

calculate_volume_discount(quantity, volume_discounts) ==
    IF volume_discounts = <<>>
    THEN 0
    ELSE ScanDiscounts(SortedDiscounts(volume_discounts), quantity)

\* the quantities and tier lists of the drawn calls
MaxQuantity == 11
MaxTiers == 3
VolumeTiers ==
    { [min_quantity |-> 3, discount_percent |-> 10],
      [min_quantity |-> 5, discount_percent |-> 15],
      [min_quantity |-> 5, discount_percent |-> 20],
      [min_quantity |-> 10, discount_percent |-> 25] }
\* the lists of up to MaxTiers different tiers, in every order
VolumeDiscountLists ==
    UNION { { vds \in [1 .. n -> VolumeTiers] :
                 \A i, j \in 1 .. n : i # j => vds[i] # vds[j] } : n \in 0 .. MaxTiers }

\* the function applied to the call k and its value returned
volume_discount_call(k) ==
    /\ Accepted
    /\ inflight[k].pc = "called"
    /\ inflight' = [inflight EXCEPT ![k].pc = "returned"]
    /\ response' = ReplyWith(200, "volume_discount",
                             calculate_volume_discount(inflight[k].quantity,
                                                       inflight[k].volume_discounts))
    /\ UNCHANGED <<customers, nextCustomerId, orders, payments, ledger, loyalty_settings>>

InitVolume ==
    /\ customers = <<>>
    /\ nextCustomerId = 1
    /\ orders = <<>>
    /\ payments = <<>>
    /\ ledger = <<>>
    /\ loyalty_settings = <<>>
    /\ response = Reply(200, "ok")
    /\ requests = 0
    /\ \E quantity \in 0 .. MaxQuantity, vds \in VolumeDiscountLists :
          inflight = << [ pc |-> "called", quantity |-> quantity, volume_discounts |-> vds ] >>

NextVolume == \E k \in DOMAIN inflight : volume_discount_call(k)

SpecVolume == InitVolume /\ [][NextVolume]_vars

----------------------------------------------------------------------------
(* POST /customers/{customer_id}/loyalty/adjust, one storage call at a      *)
(* time, and the requests whose balance writes race: an order creation that *)
(* redeems, a manual adjustment, and the accrual of a confirmed card        *)
(* payment.                                                                 *)

\* the role check, find_one of the customer, and new_points from the balance read
adjust_begin(user, c, adjustment) ==
    /\ Accepted
    /\ Len(inflight) < MaxConfirmations
    /\ Cardinality({k \in DOMAIN inflight : inflight[k].handler = "adjust_loyalty_points"})
          < MaxAdjustments
    /\ IF user.role \notin {"admin", "manager"}
       THEN /\ response' = Reply(403, "Not authorized")
            /\ UNCHANGED inflight
       ELSE IF c \notin DOMAIN customers
       THEN /\ response' = Reply(404, "Customer not found")
            /\ UNCHANGED inflight
       ELSE /\ inflight' = Append(inflight,
                  [ pc |-> "adjust",
                    handler |-> "adjust_loyalty_points",
                    order_id |-> NoId,
                    customer_id |-> c,
                    user |-> user.id,
                    adjustment |-> adjustment,
                    current_points |-> customers[c].loyalty_points,
                    new_points |-> AdjustedPoints(customers[c].loyalty_points, adjustment),
                    applied |-> {} ])
            /\ UNCHANGED response
    /\ UNCHANGED <<customers, nextCustomerId, orders, payments, ledger, loyalty_settings>>

\* the balance moved by the adjustment from its stored value, as a $inc would
adjust_balance_Increment(k) ==
    /\ inflight[k].pc = "adjust"
    /\ LET x == inflight[k]
       IN  customers' = IF x.customer_id \in DOMAIN customers
                        THEN [customers EXCEPT ![x.customer_id].loyalty_points =
                                                  AdjustedPoints(@, x.adjustment)]
                        ELSE customers
    /\ Proceed(k, "adjusted", "balance")
    /\ UNCHANGED <<nextCustomerId, orders, payments, ledger, loyalty_settings, response, requests>>

\* update_one with $set of loyalty_points to new_points
adjust_balance(k) ==
    /\ inflight[k].pc = "adjust"
    /\ LET x == inflight[k]
       IN  customers' = IF x.customer_id \in DOMAIN customers
                        THEN [customers EXCEPT ![x.customer_id].loyalty_points = x.new_points]
                        ELSE customers
    /\ Proceed(k, "adjusted", "balance")
    /\ UNCHANGED <<nextCustomerId, orders, payments, ledger, loyalty_settings, response, requests>>

\* insert_one of the adjustment transaction, and the reply
adjust_ledger(k) ==
    /\ inflight[k].pc = "adjusted"
    /\ LET x == inflight[k]
       IN  ledger' = Append(ledger,
               [ customer_id |-> x.customer_id,
                 order_id |-> NoId,
                 type |-> "adjustment",
                 points |-> x.adjustment,
                 balance_after |-> x.new_points,
                 adjusted_by |-> x.user ])
    /\ Proceed(k, "done", "entry")
    /\ response' = Reply(200, "ok")
    /\ UNCHANGED <<customers, nextCustomerId, orders, payments, loyalty_settings, requests>>

\* the balance the customer starts the races with
RaceBalance == 3

(* A customer with RaceBalance points (from an adjustment), one unpaid      *)
(* order and the pending card payment for it.                               *)
InitRace ==
    /\ customers = [c \in {1} |->
                      [ customer_type |-> "retail",
                        is_blacklisted |-> FALSE,
                        loyalty_excluded |-> FALSE,
                        loyalty_points |-> RaceBalance,
                        total_orders |-> 1,
                        total_spent |-> 250,
                        average_order_value |-> 250,
                        last_order_date |-> TRUE ]]
    /\ ledger = << [ customer_id |-> 1, order_id |-> NoId, type |-> "adjustment",
                     points |-> RaceBalance, balance_after |-> RaceBalance,
                     adjusted_by |-> "u_admin" ] >>
    /\ nextCustomerId = 2
    /\ orders = << [ customer_id |-> 1,
                     customer_type |-> "retail",
                     total |-> 250,
                     manual_discount |-> 0,
                     loyalty_points_redeemed |-> 0,
                     loyalty_points_earned |-> 0,
                     status |-> "cleaning",
                     payment_status |-> "pending",
                     payment_method |-> Null,
                     timestamps |-> [ created_at |-> TRUE, cleaning_at |-> TRUE,
                                      ready_at |-> FALSE, collected_at |-> FALSE,
                                      delivered_at |-> FALSE, cancelled_at |-> FALSE ] ] >>
    /\ payments = << [ order_id |-> 1,
                       amount |-> 250,
                       payment_method |-> "card",
                       status |-> "pending",
                       stripe_session_id |-> 1 ] >>
    /\ loyalty_settings = <<>>
    /\ response = Reply(200, "pending")
    /\ requests = 0
    /\ inflight = <<>>

NextRace ==
    \/ \E c \in DOMAIN customers, tot \in OrderTotals, r \in RedeemChoices :
          order_begin(c, "retail", tot, r)
    \/ \E k \in DOMAIN inflight : order_deduct(k)
    \/ \E k \in DOMAIN inflight : order_ledger(k)
    \/ \E k \in DOMAIN inflight : order_insert(k)
    \/ \E k \in DOMAIN inflight : order_stats(k)
    \/ \E u \in Users, c \in DOMAIN customers, a \in AdjustChoices : adjust_begin(u, c, a)
    \/ \E k \in DOMAIN inflight : adjust_balance(k)
    \/ \E k \in DOMAIN inflight : adjust_ledger(k)
    \/ \E sid \in IssuedSessions : status_begin(sid, "paid")
    \/ \E k \in DOMAIN inflight : status_tx(k)
    \/ \E k \in DOMAIN inflight : status_order(k)
    \/ \E k \in DOMAIN inflight : status_reread(k)
    \/ \E k \in DOMAIN inflight : award_read(k)
    \/ \E k \in DOMAIN inflight : award_balance(k)
    \/ \E k \in DOMAIN inflight : award_order(k)
    \/ \E k \in DOMAIN inflight : award_ledger(k)

SpecRace == InitRace /\ [][NextRace]_vars

----------------------------------------------------------------------------
(* GET /settings/loyalty: the stored settings, and when no document is      *)
(* stored, default settings with four tiers (which LoyaltySettings() and    *)
(* the accrual's settings.get defaults do not have).                        *)
ReportedDefaultTiers ==
    << [name |-> "Bronze", min_points |-> 0, multiplier |-> 100],
       [name |-> "Silver", min_points |-> 500, multiplier |-> 125],
       [name |-> "Gold", min_points |-> 1000, multiplier |-> 150],
       [name |-> "Platinum", min_points |-> 2500, multiplier |-> 200] >>

get_loyalty_settings(ls) ==
    IF "default" \in DOMAIN ls
    THEN ls["default"]
    ELSE [DefaultLoyaltySettings EXCEPT !.tiers = ReportedDefaultTiers]

\* balances at and around the reported tiers
TierBalances == {0, 499, 500, 2500}

(* A customer with a balance from TierBalances and one unpaid order, with   *)
(* no settings document stored or with the reported defaults stored.        *)
InitTiers ==
    /\ \E b \in TierBalances, stored \in BOOLEAN :
          /\ customers = [c \in {1} |->
                            [ customer_type |-> "retail",
                              is_blacklisted |-> FALSE,
                              loyalty_excluded |-> FALSE,
                              loyalty_points |-> b,
                              total_orders |-> 1,
                              total_spent |-> 250,
                              average_order_value |-> 250,
                              last_order_date |-> TRUE ]]
          /\ ledger = IF b > 0
                      THEN << [ customer_id |-> 1, order_id |-> NoId, type |-> "adjustment",
                                points |-> b, balance_after |-> b,
                                adjusted_by |-> "u_admin" ] >>
                      ELSE <<>>
          /\ loyalty_settings = IF stored
                                THEN [d \in {"default"} |-> get_loyalty_settings(<<>>)]
                                ELSE <<>>
    /\ nextCustomerId = 2
    /\ orders = << [ customer_id |-> 1,
                     customer_type |-> "retail",
                     total |-> 250,
                     manual_discount |-> 0,
                     loyalty_points_redeemed |-> 0,
                     loyalty_points_earned |-> 0,
                     status |-> "cleaning",
                     payment_status |-> "pending",
                     payment_method |-> Null,
                     timestamps |-> [ created_at |-> TRUE, cleaning_at |-> TRUE,
                                      ready_at |-> FALSE, collected_at |-> FALSE,
                                      delivered_at |-> FALSE, cancelled_at |-> FALSE ] ] >>
    /\ payments = <<>>
    /\ response = Reply(200, "ok")
    /\ requests = 0
    /\ inflight = <<>>

NextTiers ==
    \/ \E o \in OrderIds, a \in AccrualAmounts, m \in PaymentMethods :
          create_payment(o, a, m, "issued")
    \/ \E sid \in IssuedSessions, st \in {"paid", "unpaid"} : get_payment_status(sid, st)
    \/ \E u \in Users, f \in SUBSET SettingsUpdateKeys, v \in SettingsUpdateValues :
          update_loyalty_settings(u, f, v)

SpecTiers == InitTiers /\ [][NextTiers]_vars

----------------------------------------------------------------------------
\* the manual discounts submitted, in cents
ManualDiscounts == {-100, 0, 100}

\* orders submitted with a manual discount, and their status updates
NextPricing ==
    \/ \E n \in NewCustomers :
          create_customer(n.customer_type, n.is_blacklisted, n.loyalty_excluded)
    \/ \E c \in CustomerIds, t \in CustomerTypes, tot \in OrderTotals, md \in ManualDiscounts :
          create_order(c, t, tot, 0, md)
    \/ \E o \in OrderIds, st \in {"ready", "collected"} : update_order_status(o, st)

SpecPricing == Init /\ [][NextPricing]_vars

----------------------------------------------------------------------------
(* Helpers of the properties *)

\* the sum of the points deltas of the ledger entries 1..n of customer c
RECURSIVE LedgerSum(_, _)
LedgerSum(c, n) ==
    IF n = 0 THEN 0
    ELSE LedgerSum(c, n - 1) + (IF ledger[n].customer_id = c THEN ledger[n].points ELSE 0)

\* the earned ledger entries that reference order o
EarnedEntries(lg, o) == {i \in DOMAIN lg : lg[i].type = "earned" /\ lg[i].order_id = o}

\* the completed payment transactions that reference order o
CompletedPayments(o) ==
    {p \in DOMAIN payments : payments[p].order_id = o /\ payments[p].status = "completed"}

\* payment p is completed after the step and was not before it
BecomesCompleted(p) ==
    /\ p \in DOMAIN payments'
    /\ payments'[p].status = "completed"
    /\ (p \in DOMAIN payments => payments[p].status # "completed")

\* the step appends exactly one earned entry for order o and customer c, adds its
\* points to the balance and records them on the order
AccruesOnce(o, c) ==
    /\ Len(ledger') = Len(ledger) + 1
    /\ SubSeq(ledger', 1, Len(ledger)) = ledger
    /\ LET e == ledger'[Len(ledger')]
       IN  /\ e.type = "earned"
           /\ e.order_id = o
           /\ e.customer_id = c
           /\ e.points > 0
           /\ customers'[c].loyalty_points = customers[c].loyalty_points + e.points
           /\ orders'[o].loyalty_points_earned = e.points

----------------------------------------------------------------------------
(* C1: ledger replay.  For every customer, the sum of the points deltas of  *)
(* all the customer's loyalty ledger entries equals the customer's current  *)
(* loyalty_points, also after negative adjustments larger than the balance. *)
C1_LedgerReplay ==
    \A c \in DOMAIN customers : LedgerSum(c, Len(ledger)) = customers[c].loyalty_points

(* C2: every transition of a payment to completed (cash or bank_transfer at *)
(* creation, card by a paid status poll, card by a paid webhook) runs the   *)
(* accrual once: for an eligible customer the step appends one earned       *)
(* ledger entry and sets the order's loyalty_points_earned.                 *)
C2_AccrualOnEveryCompletion ==
    [][\A p \in DOMAIN payments' :
          BecomesCompleted(p) =>
             LET o == payments'[p].order_id
                 c == orders[o].customer_id
             IN  ~AwardSkipped(customers, loyalty_settings, c, payments'[p].amount)
                    => AccruesOnce(o, c)]_vars

(* C3: webhook idempotence.  The first paid webhook for a pending card      *)
(* payment of an eligible customer leaves exactly one more earned ledger    *)
(* entry for the order; a second delivery of the same payload adds none and *)
(* leaves the order's loyalty_points_earned as it was.                      *)
C3_WebhookIdempotence ==
    [][\A sid \in SessionIds :
          (stripe_webhook(sid, "paid") /\ PaymentOfSession(sid) # NoId) =>
             LET p == PaymentOfSession(sid)
                 o == payments[p].order_id
                 c == orders[o].customer_id
             IN  IF payments[p].status # "completed"
                 THEN ~AwardSkipped(customers, loyalty_settings, c, payments[p].amount)
                         => Cardinality(EarnedEntries(ledger', o))
                               = Cardinality(EarnedEntries(ledger, o)) + 1
                 ELSE /\ ledger' = ledger
                      /\ orders'[o].loyalty_points_earned = orders[o].loyalty_points_earned]_vars

(* C4: for every order, at most one payment transaction referencing it has  *)
(* status completed, in every reachable state.                              *)
C4_AtMostOneCompleted ==
    \A o \in DOMAIN orders : Cardinality(CompletedPayments(o)) <= 1

\* the payment document create_payment builds before the dispatch by method
PendingPayment(o, a, m) ==
    [order_id |-> o, amount |-> a, payment_method |-> m, status |-> "pending",
     stripe_session_id |-> NoId]

\* nothing stored is changed by the step
NothingStored == UNCHANGED <<customers, nextCustomerId, orders, payments, ledger, loyalty_settings>>

\* the balance create_order validates a redemption against
Balance(c) == IF c \in DOMAIN customers THEN customers[c].loyalty_points ELSE 0

(* C5: AlreadyPaid guard.  create_payment for an order whose payment_status *)
(* is completed fails with the already-paid error for every payment method, *)
(* inserts no payment transaction, awards no points and leaves the order    *)
(* and the customer unchanged.                                              *)
C5_AlreadyPaidGuard ==
    [][\A o \in DOMAIN orders, a \in PaymentAmounts, m \in PaymentMethods,
          g \in {"issued", "error"} :
          (orders[o].payment_status = "completed" /\ create_payment(o, a, m, g))
             => /\ response' = Reply(400, "Order already paid")
                /\ NothingStored]_vars

\* a payment was refused as already paid, on an order that is paid
C5_Witness ==
    /\ response = Reply(400, "Order already paid")
    /\ \E o \in DOMAIN orders : orders[o].payment_status = "completed"

(* C6: a cash or bank_transfer payment on an order that is not yet paid     *)
(* completes immediately: the returned transaction is completed, the        *)
(* order's payment_status becomes completed and its payment_method the      *)
(* method used, and the accrual runs in the same step (one earned entry for *)
(* an eligible customer, nothing for any other).                            *)
C6_ImmediateCompletion ==
    [][\A o \in DOMAIN orders, a \in PaymentAmounts, m \in {"cash", "bank_transfer"} :
          (orders[o].payment_status # "completed" /\ create_payment(o, a, m, "issued"))
             => /\ response' = Reply(200, "completed")
                /\ payments' = Append(payments, [PendingPayment(o, a, m) EXCEPT
                                                    !.status = "completed"])
                /\ orders'[o].payment_status = "completed"
                /\ orders'[o].payment_method = m
                /\ LET c == orders[o].customer_id
                   IN  IF AwardSkipped(customers, loyalty_settings, c, a)
                       THEN ledger' = ledger /\ customers' = customers
                       ELSE AccruesOnce(o, c)]_vars

\* a bank transfer settled an order and earned points for it
C6_Witness ==
    \E p \in DOMAIN payments :
        /\ payments[p].payment_method = "bank_transfer"
        /\ payments[p].status = "completed"
        /\ orders[payments[p].order_id].payment_status = "completed"
        /\ orders[payments[p].order_id].payment_method = "bank_transfer"
        /\ orders[payments[p].order_id].loyalty_points_earned > 0
        /\ EarnedEntries(ledger, payments[p].order_id) # {}

\* what C7 says of an invoice payment for an order of a customer of type ct
InvoiceOutcome(o, a, ct) ==
    IF ct = "retail"
    THEN /\ response'.code \in 400 .. 499
         /\ NothingStored
    ELSE /\ response' = Reply(200, "pending")
         /\ payments' = Append(payments, PendingPayment(o, a, "invoice"))
         /\ orders'[o].payment_status = "pending"

C8_PayOnCollection ==
    /\ [][\A o \in DOMAIN orders, a \in PaymentAmounts :
             ( /\ orders[o].payment_status # "completed"
               /\ create_payment(o, a, "pay_on_collection", "issued") )
                => /\ response' = Reply(200, "pending")
                   /\ payments' = Append(payments, PendingPayment(o, a, "pay_on_collection"))
                   /\ orders' = [orders EXCEPT ![o].payment_method = "pay_on_collection"]
                   /\ orders'[o].payment_status = "pending"
                   /\ UNCHANGED <<customers, ledger, loyalty_settings>>]_vars
    /\ [][\A o \in DOMAIN orders :
             ( /\ orders[o].payment_method = "pay_on_collection"
               /\ orders[o].payment_status = "pending" )
                => /\ \A a \in PaymentAmounts, m \in {"cash", "bank_transfer"} :
                         create_payment(o, a, m, "issued")
                            => orders'[o].payment_status = "completed"
                   /\ \A a \in PaymentAmounts :
                         create_payment(o, a, "card", "issued")
                            => /\ response' = Reply(200, "pending")
                               /\ Len(payments') = Len(payments) + 1
                   /\ \A sid \in SessionIds :
                         ( /\ PaymentOfSession(sid) # NoId
                           /\ payments[PaymentOfSession(sid)].order_id = o
                           /\ payments[PaymentOfSession(sid)].status = "pending"
                           /\ get_payment_status(sid, "paid") )
                            => orders'[o].payment_status = "completed"]_vars
    /\ [](\A o \in DOMAIN orders :
             (EarnedEntries(ledger, o) # {} \/ orders[o].loyalty_points_earned > 0)
                => orders[o].payment_status = "completed")

\* an order with a pending pay_on_collection transaction was settled by a later
\* cash payment, which earned the points
C8_Witness ==
    \E o \in DOMAIN orders :
        /\ \E p \in DOMAIN payments :
              /\ payments[p].order_id = o
              /\ payments[p].payment_method = "pay_on_collection"
              /\ payments[p].status = "pending"
        /\ \E p \in DOMAIN payments :
              /\ payments[p].order_id = o
              /\ payments[p].payment_method = "cash"
              /\ payments[p].status = "completed"
        /\ orders[o].payment_status = "completed"
        /\ EarnedEntries(ledger, o) # {}

(* C9: blacklist gate.  Creating an order for a customer whose              *)
(* is_blacklisted flag is true fails before any persistence: no order is    *)
(* inserted, no points are deducted, no ledger entry is appended and the    *)
(* customer's aggregates are unchanged.                                     *)
C9_BlacklistGate ==
    [][\A c \in DOMAIN customers, t \in CustomerTypes, tot \in OrderTotals,
          r \in RedeemChoices :
          (customers[c].is_blacklisted /\ create_order(c, t, tot, r, 0))
             => /\ response'.code \in 400 .. 499
                /\ NothingStored]_vars

\* an order was refused for a blacklisted customer who has points to redeem
C9_Witness ==
    /\ response = Reply(400, "Customer is blacklisted and cannot place orders")
    /\ \E c \in DOMAIN customers :
          customers[c].is_blacklisted /\ customers[c].loyalty_points > 0

(* C10: order creation with loyalty_points_redeemed greater than the        *)
(* customer's current balance fails, validated before any mutation: the     *)
(* balance, the ledger, the orders and the customer aggregates are          *)
(* unchanged; the error is the insufficient-points error (for a blacklisted *)
(* customer the blacklist gate, which comes first, answers instead).        *)
C10_InsufficientPoints ==
    [][\A c \in CustomerIds, t \in CustomerTypes, tot \in OrderTotals, r \in RedeemChoices :
          (r > Balance(c) /\ create_order(c, t, tot, r, 0))
             => /\ response'.code = 400
                /\ NothingStored
                /\ ~(c \in DOMAIN customers /\ customers[c].is_blacklisted)
                      => response' = Reply(400, "Insufficient loyalty points")]_vars

\* a redemption was refused for a customer whose balance is positive but smaller
C10_Witness ==
    /\ response = Reply(400, "Insufficient loyalty points")
    /\ orders = <<>>
    /\ \E c \in DOMAIN customers :
          /\ customers[c].loyalty_points > 0
          /\ customers[c].loyalty_points < 3
          /\ ~customers[c].is_blacklisted

----------------------------------------------------------------------------
(* C11: order creation is atomic with respect to the caller.  A create_order *)
(* request that has ended, with a reply or with a failure, has made all of   *)
(* its writes (points deducted, redeemed entry, order inserted, customer     *)
(* stats set) or none of them; a failure after the points deduction and      *)
(* before the order insert leaves no points deducted without an order.       *)
C11_OrderCreationAtomic ==
    \A k \in DOMAIN inflight :
        inflight[k].pc \in {"done", "failed"}
           => \/ inflight[k].applied = {}
              \/ inflight[k].applied = OrderWrites(inflight[k].loyalty_points_redeemed)

\* the orders persisted for customer c
OrdersOf(c) == {o \in DOMAIN orders : orders[o].customer_id = c}

\* the sum of the totals of the orders 1..n persisted for customer c
RECURSIVE SpentUpTo(_, _)
SpentUpTo(c, n) ==
    IF n = 0 THEN 0
    ELSE SpentUpTo(c, n - 1) + (IF orders[n].customer_id = c THEN orders[n].total ELSE 0)

\* total_orders and total_spent of customer c are those of the persisted orders
CountsAndSums(c) ==
    /\ customers[c].total_orders = Cardinality(OrdersOf(c))
    /\ customers[c].total_spent = SpentUpTo(c, Len(orders))

C13_BalanceNonNegative ==
    \A c \in DOMAIN customers : customers[c].loyalty_points \in Nat

\* the loyalty settings in force: the stored ones, the defaults when none are
ProgramSettings ==
    IF "default" \in DOMAIN loyalty_settings
    THEN loyalty_settings["default"]
    ELSE DefaultLoyaltySettings

\* the five cases C14 lists for customer c and a payment of amount
SkipCase(c, amount) ==
    \/ c \notin DOMAIN customers
    \/ customers[c].loyalty_excluded
    \/ ~ProgramSettings.enabled
    \/ customers[c].customer_type = "business" /\ ProgramSettings.exclude_business_customers
    \/ PointsEarned(amount, ProgramSettings.points_per_dollar,
                    TierMultiplier(ProgramSettings.tiers, customers[c].loyalty_points)) <= 0

\* no balance changes, no ledger entry is added and order o has earned nothing new
SilentNoOp(o) ==
    /\ customers' = customers
    /\ ledger' = ledger
    /\ orders'[o].loyalty_points_earned = orders[o].loyalty_points_earned

(* C14: the accrual is a silent no-op (balance unchanged, no ledger entry,  *)
(* the order's loyalty_points_earned unchanged, no error, and the payment   *)
(* still completes) whenever the customer is not found, is loyalty_excluded,*)
(* the program is disabled, the customer is a business customer while       *)
(* exclude_business_customers is set, or the computed points are <= 0: for  *)
(* a cash or bank_transfer payment and for a card payment confirmed by a    *)
(* status poll.                                                             *)
C14_AccrualSkips ==
    [][ /\ \A o \in DOMAIN orders, a \in PaymentAmounts, m \in {"cash", "bank_transfer"} :
              ( /\ orders[o].payment_status # "completed"
                /\ SkipCase(orders[o].customer_id, a)
                /\ create_payment(o, a, m, "issued") )
                 => /\ SilentNoOp(o)
                    /\ response' = Reply(200, "completed")
                    /\ payments'[Len(payments')].status = "completed"
                    /\ orders'[o].payment_status = "completed"
        /\ \A sid \in IssuedSessions :
              LET p == PaymentOfSession(sid)
                  o == payments[p].order_id
              IN  ( /\ payments[p].status # "completed"
                    /\ SkipCase(orders[o].customer_id, payments[p].amount)
                    /\ get_payment_status(sid, "paid") )
                     => /\ SilentNoOp(o)
                        /\ response' = Reply(200, "paid")
                        /\ payments'[p].status = "completed"
                        /\ orders'[o].payment_status = "completed" ]_vars

\* a business customer, not loyalty_excluded, under the default exclusion of
\* business customers: a completed cash payment of 2.50 earned nothing
C14_Witness ==
    \E p \in DOMAIN payments :
        LET o == payments[p].order_id
            c == orders[o].customer_id
        IN  /\ payments[p].status = "completed"
            /\ payments[p].payment_method = "cash"
            /\ payments[p].amount = 250
            /\ c \in DOMAIN customers
            /\ customers[c].customer_type = "business"
            /\ ~customers[c].loyalty_excluded
            /\ ProgramSettings.enabled
            /\ ProgramSettings.exclude_business_customers
            /\ customers[c].loyalty_points = 0
            /\ orders[o].loyalty_points_earned = 0
            /\ ledger = <<>>

\* the tiers whose min_points the balance reaches
TiersReached(tiers, balance) == {i \in DOMAIN tiers : tiers[i].min_points <= balance}

\* the multiplier C15 names: that of the tier with the highest min_points not
\* exceeding the balance, 1.0 when there is none
HighestTierMultiplier(tiers, balance) ==
    IF TiersReached(tiers, balance) = {} THEN 100
    ELSE LET top == CHOOSE i \in TiersReached(tiers, balance) :
                        \A j \in TiersReached(tiers, balance) :
                            tiers[j].min_points <= tiers[i].min_points
         IN  tiers[top].multiplier

\* floor(amount * points_per_dollar * multiplier) for customer c, on the balance
\* before the step
FloorPoints(c, amount) ==
    (amount * ProgramSettings.points_per_dollar
            * HighestTierMultiplier(ProgramSettings.tiers, customers[c].loyalty_points))
       \div 1000000

\* the step awards exactly n points to customer c for order o (nothing when n <= 0)
Awards(c, o, n) ==
    IF n <= 0
    THEN customers' = customers /\ ledger' = ledger
    ELSE /\ customers'[c].loyalty_points = customers[c].loyalty_points + n
         /\ Len(ledger') = Len(ledger) + 1
         /\ ledger'[Len(ledger')].type = "earned"
         /\ ledger'[Len(ledger')].points = n
         /\ orders'[o].loyalty_points_earned = n

AppendsOne(e) == ledger' = Append(ledger, e)

\* what a successful accrual of n points for order o of customer c leaves
AccrualEffects(c, o, n) ==
    /\ n > 0
    /\ customers'[c].loyalty_points = customers[c].loyalty_points + n
    /\ customers' = [customers EXCEPT ![c].loyalty_points = @ + n]
    /\ orders'[o].loyalty_points_earned = n
    /\ AppendsOne([ customer_id |-> c, order_id |-> o, type |-> "earned", points |-> n,
                    balance_after |-> customers'[c].loyalty_points, adjusted_by |-> Null ])

(* C16: on a successful accrual (none of the skip cases of C14) the         *)
(* customer's balance increases by exactly points_earned, the order's       *)
(* loyalty_points_earned is set to points_earned, and exactly one earned    *)
(* ledger entry is appended whose points are points_earned and whose        *)
(* balance_after is the customer's stored balance right after the accrual.  *)
C16_AccrualEffects ==
    [][ /\ \A o \in DOMAIN orders, a \in AccrualAmounts, m \in {"cash", "bank_transfer"} :
              ( /\ orders[o].payment_status # "completed"
                /\ ~SkipCase(orders[o].customer_id, a)
                /\ create_payment(o, a, m, "issued") )
                 => AccrualEffects(orders[o].customer_id, o,
                                   FloorPoints(orders[o].customer_id, a))
        /\ \A sid \in IssuedSessions :
              LET p == PaymentOfSession(sid)
                  o == payments[p].order_id
              IN  ( /\ payments[p].status # "completed"
                    /\ ~SkipCase(orders[o].customer_id, payments[p].amount)
                    /\ get_payment_status(sid, "paid") )
                     => AccrualEffects(orders[o].customer_id, o,
                                       FloorPoints(orders[o].customer_id, payments[p].amount)) ]_vars

\* a customer with 4 points earned more by a confirmed card payment: the earned
\* entry's balance_after is the stored balance, the order records the points
C16_Witness ==
    /\ Len(ledger) = 2
    /\ ledger[1].balance_after = 4
    /\ ledger[2].type = "earned"
    /\ ledger[2].points > 0
    /\ ledger[2].balance_after = 4 + ledger[2].points
    /\ customers[1].loyalty_points = ledger[2].balance_after
    /\ orders[1].loyalty_points_earned = ledger[2].points
    /\ \E p \in DOMAIN payments :
          payments[p].status = "completed" /\ payments[p].payment_method = "card"

(* C17: order creation (for a customer who is not blacklisted) with         *)
(* 0 < loyalty_points_redeemed <= balance deducts exactly                   *)
(* loyalty_points_redeemed from the balance and appends exactly one         *)
(* redeemed ledger entry for the new order with points =                    *)
(* -loyalty_points_redeemed and balance_after = the customer's stored       *)
(* balance after the deduction; with loyalty_points_redeemed = 0 the        *)
(* balance and the ledger are unchanged.                                    *)
C17_RedemptionAtCreation ==
    [][\A c \in CustomerIds, t \in CustomerTypes, tot \in OrderTotals, r \in RedeemChoices :
          /\ ( /\ 0 < r
               /\ r <= Balance(c)
               /\ ~customers[c].is_blacklisted
               /\ create_order(c, t, tot, r, 0) )
                => /\ customers'[c].loyalty_points = customers[c].loyalty_points - r
                   /\ AppendsOne([ customer_id |-> c, order_id |-> Len(orders) + 1,
                                   type |-> "redeemed", points |-> -r,
                                   balance_after |-> customers'[c].loyalty_points,
                                   adjusted_by |-> Null ])
                   /\ Len(orders') = Len(orders) + 1
                   /\ orders'[Len(orders')].loyalty_points_redeemed = r
          /\ (r = 0 /\ create_order(c, t, tot, r, 0))
                => /\ ledger' = ledger
                   /\ c \in DOMAIN customers
                         => customers'[c].loyalty_points = customers[c].loyalty_points]_vars

\* an order that redeemed the 2 points its customer had: the balance is 0 and is
\* the balance_after of the redeemed entry of -2 that references the order
C17_Witness ==
    \E o \in DOMAIN orders, i \in DOMAIN ledger :
        /\ orders[o].loyalty_points_redeemed = 2
        /\ ledger[i].type = "redeemed"
        /\ ledger[i].order_id = o
        /\ ledger[i].points = -2
        /\ ledger[i].balance_after = 0
        /\ orders[o].customer_id \in DOMAIN customers
        /\ customers[orders[o].customer_id].loyalty_points = 0
        /\ Len(ledger) = 2

\* customer c is excluded from the loyalty program
ExcludedFromLoyalty(c) ==
    \/ customers[c].loyalty_excluded
    \/ customers[c].customer_type = "business" /\ ProgramSettings.exclude_business_customers

(* C18: the redemption preview rejects in this precedence: program          *)
(* disabled, then customer excluded (loyalty_excluded, or business with     *)
(* exclude_business_customers), then requested points greater than the      *)
(* available ones, then requested points below min_redemption_points; a     *)
(* customer with 50 points and min_redemption_points = 100 who requests 50  *)
(* gets the below-minimum error.                                            *)
C18_PreviewPrecedence ==
    [][\A c \in DOMAIN customers, tot \in PreviewTotals, pts \in PreviewPoints :
          calculate_loyalty_redemption(c, tot, pts)
             => IF ~ProgramSettings.enabled
                THEN response' = Reply(400, "Loyalty program is not enabled")
                ELSE IF ExcludedFromLoyalty(c)
                THEN response' = Reply(400, "Customer is excluded from loyalty program")
                ELSE IF pts > customers[c].loyalty_points
                THEN /\ response'.code = 400
                     /\ response'.detail = "Insufficient points. Available"
                ELSE IF pts < ProgramSettings.min_redemption_points
                THEN /\ response'.code = 400
                     /\ response'.detail = "Minimum points required for redemption"
                ELSE response'.code = 200]_vars

\* a customer with 50 points was refused a redemption under the minimum of 100
C18_Witness ==
    /\ response = ReplyWith(400, "Minimum points required for redemption", 100)
    /\ customers[1].loyalty_points = 50
    /\ ~ExcludedFromLoyalty(1)
    /\ ProgramSettings.enabled
    /\ ProgramSettings.min_redemption_points = 100

(* C19: redemption preview cap.  For a valid request with points_to_redeem  *)
(* x redemption_rate > order_total x max_redemption_percent / 100 the reply *)
(* has points_to_use < points_to_redeem, discount_value =                   *)
(* max_discount_allowed, points_to_use = floor(max_discount /               *)
(* redemption_rate) and remaining_points = points_available - points_to_use;*)
(* when the cap does not bind, points_to_use equals points_to_redeem.       *)
C19_PreviewCap ==
    [][\A c \in DOMAIN customers, tot \in PreviewTotals, pts \in PreviewPoints :
          (calculate_loyalty_redemption(c, tot, pts) /\ response'.code = 200)
             => LET rate == ProgramSettings.redemption_rate
                    cap == tot * ProgramSettings.max_redemption_percent
                IN  IF pts * rate * 100 > cap
                    THEN /\ response'.points_to_use < pts
                         /\ response'.discount_value = response'.max_discount_allowed
                         /\ response'.points_to_use = cap \div (100 * rate)
                         /\ response'.remaining_points
                               = response'.points_available - response'.points_to_use
                    ELSE response'.points_to_use = pts]_vars

(* C20: the redemption preview is a dry run: whether it succeeds or fails,  *)
(* it leaves every customer balance, the loyalty ledger, all orders and the *)
(* loyalty settings unchanged.                                              *)
C20_PreviewDryRun ==
    [][\A c \in CustomerIds, tot \in PreviewTotals, pts \in PreviewPoints :
          calculate_loyalty_redemption(c, tot, pts) => NothingStored]_vars

\* a preview reported 100 of the customer's 200 points as used: the balance is
\* still 200 and the ledger holds only the adjustment it came from
C20_Witness ==
    /\ response.code = 200
    /\ "points_to_use" \in DOMAIN response
    /\ response.points_to_use = 100
    /\ response.points_available = 200
    /\ customers[1].loyalty_points = 200
    /\ Len(ledger) = 1

(* C21: a manual adjustment by an admin or manager sets the balance to      *)
(* max(0, current_points + delta), never rejecting a large negative delta,  *)
(* and appends exactly one adjustment ledger entry for any sign of delta    *)
(* (0 included) that records the actor id and balance_after = the new       *)
(* balance.  A staff actor is rejected and nothing changes.                 *)
C21_ManualAdjustment ==
    [][\A u \in Users, c \in CustomerIds, d \in AdjustDeltas :
          adjust_loyalty_points(u, c, d)
             => IF u.role = "staff"
                THEN response'.code = 403 /\ NothingStored
                ELSE c \in DOMAIN customers
                        => /\ response'.code = 200
                           /\ customers'[c].loyalty_points
                                 = (IF customers[c].loyalty_points + d > 0
                                    THEN customers[c].loyalty_points + d ELSE 0)
                           /\ AppendsOne([ customer_id |-> c, order_id |-> NoId,
                                           type |-> "adjustment", points |-> d,
                                           balance_after |-> customers'[c].loyalty_points,
                                           adjusted_by |-> u.id ])]_vars

\* a customer who had earned 2 points was adjusted by -3: the balance is 0 and the
\* adjustment entry records -3, the manager and balance_after 0
C21_Witness ==
    /\ Len(ledger) = 2
    /\ ledger[1].type = "earned"
    /\ ledger[1].balance_after = 2
    /\ ledger[2].type = "adjustment"
    /\ ledger[2].points = -3
    /\ ledger[2].balance_after = 0
    /\ ledger[2].adjusted_by = "u_manager"
    /\ customers[ledger[2].customer_id].loyalty_points = 0

TimestampNames ==
    {"created_at", "cleaning_at", "ready_at", "collected_at", "delivered_at", "cancelled_at"}

\* the timestamp field C22 names for each status (none for out_for_delivery)
StampOf ==
    [ cleaning |-> "cleaning_at", ready |-> "ready_at", collected |-> "collected_at",
      delivered |-> "delivered_at", cancelled |-> "cancelled_at",
      out_for_delivery |-> Null ]

(* C22: order timestamps are monotonically appended.  A status update to    *)
(* cleaning, ready, collected, delivered or cancelled stamps that status's  *)
(* timestamp field and leaves every other timestamp field as it was, and no *)
(* step ever resets a stamped timestamp field (or created_at) to null.      *)
C22_TimestampsAppended ==
    [][ /\ \A o \in DOMAIN orders, f \in TimestampNames :
              orders[o].timestamps[f] => orders'[o].timestamps[f]
        /\ \A o \in DOMAIN orders, st \in OrderStatuses :
              update_order_status(o, st)
                 => \A f \in TimestampNames :
                       orders'[o].timestamps[f]
                          = (IF f = StampOf[st] THEN TRUE ELSE orders[o].timestamps[f]) ]_vars

\* an order moved to ready and back to cleaning: ready_at is still stamped
C22_Witness ==
    \E o \in DOMAIN orders :
        /\ orders[o].status = "cleaning"
        /\ orders[o].timestamps.ready_at
        /\ orders[o].timestamps.created_at
        /\ ~orders[o].timestamps.collected_at

C24_TerminalStatuses ==
    [][ /\ \A o \in DOMAIN orders :
              orders[o].status \in {"collected", "delivered", "cancelled"}
                 => orders'[o].status = orders[o].status
        /\ \A o \in (DOMAIN orders') \ (DOMAIN orders) : orders'[o].status = "cleaning" ]_vars

(* C26: the order's customer snapshot is immutable.  No customer update and *)
(* no customer deletion changes a stored order (its customer_type snapshot  *)
(* included), and deleting a customer deletes none of that customer's       *)
(* orders.                                                                  *)
C26_SnapshotImmutable ==
    [][ /\ \A c \in CustomerIds, f \in CustomerUpdateFields :
              \A u \in CustomerUpdateValues(f) :
                  update_customer(c, f, u) => orders' = orders
        /\ \A c \in CustomerIds : delete_customer(c) => orders' = orders ]_vars

\* a retail customer placed an order, became a business customer and was deleted:
\* the order is still stored, recorded as retail
C26_Witness ==
    /\ customers = <<>>
    /\ nextCustomerId = 2
    /\ \E o \in DOMAIN orders :
          orders[o].customer_id = 1 /\ orders[o].customer_type = "retail"
    /\ requests = 4

(* C25: for every order, loyalty_points_earned is 0 in every reachable      *)
(* state in which the order's payment_status is not completed.              *)
C25_EarnedOnlyWhenCompleted ==
    \A o \in DOMAIN orders :
        orders[o].payment_status # "completed" => orders[o].loyalty_points_earned = 0

\* an eligible customer's order with a card payment the gateway reports unpaid:
\* not completed, nothing earned
C25_Witness ==
    /\ response = Reply(200, "unpaid")
    /\ \E p \in DOMAIN payments :
          LET o == payments[p].order_id
          IN  /\ payments[p].payment_method = "card"
              /\ payments[p].status = "pending"
              /\ orders[o].payment_status = "pending"
              /\ orders[o].loyalty_points_earned = 0
              /\ orders[o].customer_id \in DOMAIN customers
              /\ ~ExcludedFromLoyalty(orders[o].customer_id)

(* C27: the gateway-webhook handler always returns the success              *)
(* acknowledgement, also when the gateway call or an internal step raises;  *)
(* in that case no error reaches the gateway and the handler makes no       *)
(* further state change after the failing step.                             *)
C27_WebhookAcknowledges ==
    [][ /\ \A sid \in SessionIds, ev \in {"paid", "unpaid", "error"} :
              webhook_begin(sid, ev)
                 => /\ NothingStored
                    /\ (inflight' = inflight => response' = Reply(200, "received"))
        /\ \A k \in DOMAIN inflight :
              inflight[k].handler = "stripe_webhook"
                 => /\ webhook_order(k) => response' = Reply(200, "received")
                    /\ webhook_fail(k)
                          => /\ response' = Reply(200, "received")
                             /\ NothingStored
                             /\ inflight'[k].pc = "failed"
                    /\ inflight[k].pc \in {"done", "failed"} => inflight'[k] = inflight[k] ]_vars

\* a webhook whose order update raised: acknowledged, the transaction completed,
\* the order left pending
C27_Witness ==
    /\ response = Reply(200, "received")
    /\ \E k \in DOMAIN inflight :
          /\ inflight[k].handler = "stripe_webhook"
          /\ inflight[k].pc = "failed"
          /\ inflight[k].applied = {"tx"}
          /\ payments[inflight[k].payment].status = "completed"
          /\ orders[inflight[k].order_id].payment_status = "pending"

SatisfiedTiers(vds, quantity) == {i \in DOMAIN vds : quantity >= vds[i].min_quantity}

\* the satisfied tiers with the highest min_quantity
TopTiers(vds, quantity) ==
    {i \in SatisfiedTiers(vds, quantity) :
        \A j \in SatisfiedTiers(vds, quantity) : vds[j].min_quantity <= vds[i].min_quantity}

(* C28: volume discount selection.  calculate_volume_discount returns the   *)
(* discount_percent of the tier with the highest min_quantity that the      *)
(* quantity satisfies (a quantity equal to a tier's min_quantity satisfies  *)
(* it; of two tiers with the same min_quantity, the one listed first),      *)
(* never a sum of several tiers, and 0 when the quantity satisfies no tier  *)
(* or the list is empty.                                                    *)
C28_VolumeDiscount ==
    \A k \in DOMAIN inflight :
        inflight[k].pc = "returned"
           => LET vds == inflight[k].volume_discounts
                  top == TopTiers(vds, inflight[k].quantity)
              IN  response.arg = IF top = {}
                                 THEN 0
                                 ELSE vds[CHOOSE i \in top : \A j \in top : i <= j].discount_percent

\* a quantity equal to the middle tier's min_quantity, the tiers listed unsorted:
\* that tier's percent, not the lower tier's and not their sum
C28_Witness ==
    \E k \in DOMAIN inflight :
        /\ inflight[k].pc = "returned"
        /\ inflight[k].quantity = 5
        /\ inflight[k].volume_discounts =
              << [min_quantity |-> 3, discount_percent |-> 10],
                 [min_quantity |-> 10, discount_percent |-> 25],
                 [min_quantity |-> 5, discount_percent |-> 15] >>
        /\ response.arg = 15

(* C29: every persisted order has manual_discount >= 0: order creation      *)
(* does not persist an order whose submitted manual_discount is negative.   *)
C29_ManualDiscountNonNegative ==
    \A o \in DOMAIN orders : orders[o].manual_discount >= 0

\* the sum of the totals of the orders in S
RECURSIVE SumOfTotals(_)
SumOfTotals(S) ==
    IF S = {} THEN 0
    ELSE LET o == CHOOSE x \in S : TRUE
         IN  orders[o].total + SumOfTotals(S \ {o})

(* C31: two concurrent order creations for one customer can lose a stats    *)
(* update.  The stats write of a creation sets total_orders and total_spent *)
(* to the values the creation read at its start plus its own order,         *)
(* whatever another creation has written since, and so the stored           *)
(* total_orders never exceeds the number of the customer's persisted orders *)
(* nor total_spent the sum of their totals, and can fall short of them.     *)
C31_LostStatsUpdate ==
    /\ [][\A k \in DOMAIN inflight :
             (inflight[k].customer_id \in DOMAIN customers /\ order_stats(k))
                => LET c == inflight[k].customer_id
                   IN  /\ customers'[c].total_orders = inflight[k].total_orders + 1
                       /\ customers'[c].total_spent = inflight[k].total_spent + inflight[k].total]_vars
    /\ [](\A c \in DOMAIN customers :
             /\ customers[c].total_orders <= Cardinality(OrdersOf(c))
             /\ customers[c].total_spent <= SumOfTotals(OrdersOf(c)))

\* two creations for one customer that read the same stats and both ran to their
\* end: total_orders and total_spent count only one of the two new orders
C31_Witness ==
    /\ Len(inflight) = 2
    /\ \A k \in DOMAIN inflight :
          /\ inflight[k].handler = "create_order"
          /\ inflight[k].pc = "done"
          /\ inflight[k].customer_id = 1
          /\ inflight[k].total_orders = customers[1].total_orders - 1
    /\ Cardinality(OrdersOf(1)) = customers[1].total_orders + 1
    /\ customers[1].total_spent < SumOfTotals(OrdersOf(1))

\* the entries of the ledger with the given type
EntriesOfType(type) == {i \in DOMAIN ledger : ledger[i].type = type}

(* C32: an order creation that redeems points racing a manual adjustment or *)
(* an accrual on the same customer can lose an update.  The redemption      *)
(* lowers the stored balance by the redeemed points, while the adjustment   *)
(* and the accrual set the balance to a value computed from the balance     *)
(* they read earlier, whatever has been written since; each of the three    *)
(* appends its ledger entry.                                                *)
C32_LostBalanceUpdate ==
    [][\A k \in DOMAIN inflight :
          LET x == inflight[k]
              c == x.customer_id
          IN  /\ order_deduct(k)
                    => customers'[c].loyalty_points
                          = customers[c].loyalty_points - x.loyalty_points_redeemed
              /\ adjust_balance(k)
                    => customers'[c].loyalty_points = Max(0, x.current_points + x.adjustment)
              /\ award_balance(k)
                    => customers'[c].loyalty_points = x.current_points + x.points_earned
              /\ (order_ledger(k) \/ adjust_ledger(k) \/ award_ledger(k))
                    => Len(ledger') = Len(ledger) + 1 ]_vars

\* a redemption and an adjustment that both ran to their end: the ledger holds
\* the redeemed entry and the adjustment entry, and the balance is the one the
\* adjustment computed from the balance it read before the deduction
C32_Witness ==
    /\ \A k \in DOMAIN inflight : inflight[k].pc = "done"
    /\ \E k \in DOMAIN inflight :
          /\ inflight[k].handler = "create_order"
          /\ inflight[k].loyalty_points_redeemed > 0
    /\ \E k \in DOMAIN inflight :
          /\ inflight[k].handler = "adjust_loyalty_points"
          /\ inflight[k].current_points = RaceBalance
          /\ customers[1].loyalty_points = inflight[k].new_points
    /\ Cardinality(EntriesOfType("redeemed")) = 1
    /\ Cardinality(EntriesOfType("adjustment")) = 2
    /\ customers[1].loyalty_points > LedgerSum(1, Len(ledger))

\* the sum of the points of the earned entries 1..n that reference order o
RECURSIVE EarnedSum(_, _)
EarnedSum(o, n) ==
    IF n = 0 THEN 0
    ELSE EarnedSum(o, n - 1)
            + (IF ledger[n].type = "earned" /\ ledger[n].order_id = o THEN ledger[n].points ELSE 0)

(* C33: for every order, in every state reached by payments, polls and      *)
(* webhooks, loyalty_points_earned equals the sum of the points of the      *)
(* earned ledger entries that reference the order.                          *)
C33_EarnedMatchesLedger ==
    \A o \in DOMAIN orders : orders[o].loyalty_points_earned = EarnedSum(o, Len(ledger))

\* the multipliers the stored tiers can give, and 1.0
PossibleMultipliers ==
    {100} \cup {ProgramSettings.tiers[i].multiplier : i \in DOMAIN ProgramSettings.tiers}

(* C34: an order's payment_status becomes completed only through a payment  *)
(* whose amount equals the order's total, and the points earned for an      *)
(* order are computed from the order's total.                               *)
C34_SettledByFullAmount ==
    /\ \A o \in DOMAIN orders :
          orders[o].payment_status = "completed"
             => \E p \in CompletedPayments(o) : payments[p].amount = orders[o].total
    /\ \A i \in EntriesOfType("earned") :
          \E m \in PossibleMultipliers :
              ledger[i].points
                 = PointsEarned(orders[ledger[i].order_id].total,
                                ProgramSettings.points_per_dollar, m)

(* C35: redemption at order creation obeys the rules of the redemption      *)
(* preview.  Every order persisted with loyalty_points_redeemed > 0 is      *)
(* created while the program is enabled, for a customer not excluded from   *)
(* loyalty, with at least min_redemption_points redeemed, and with a        *)
(* discount (points times redemption_rate) within max_redemption_percent of *)
(* the order total.                                                         *)
C35_RedemptionRules ==
    [][\A c \in CustomerIds, t \in CustomerTypes, tot \in OrderTotals, r \in RedeemChoices :
          (r > 0 /\ Len(orders') > Len(orders) /\ create_order(c, t, tot, r, 0))
             => /\ ProgramSettings.enabled
                /\ c \in DOMAIN customers
                /\ ~ExcludedFromLoyalty(c)
                /\ r >= ProgramSettings.min_redemption_points
                /\ r * ProgramSettings.redemption_rate * 100
                      <= ProgramSettings.max_redemption_percent * tot]_vars

(* C36: transaction status mirrors order settlement.  In every state in     *)
(* which no payment operation is still running, the state left by an        *)
(* operation that failed part-way included, an order has payment_status     *)
(* completed if and only if some payment transaction of that order has      *)
(* status completed.                                                        *)
C36_TransactionMirrorsOrder ==
    (\A k \in DOMAIN inflight : inflight[k].pc \in {"done", "failed"})
       => \A o \in DOMAIN orders :
             orders[o].payment_status = "completed" <=> CompletedPayments(o) # {}

\* floor(amount * points_per_dollar * multiplier) for customer c with the settings
\* and tiers that GET /settings/loyalty reports, on the balance before the step
ReportedPoints(c, amount) ==
    LET settings == get_loyalty_settings(loyalty_settings)
    IN  (amount * settings.points_per_dollar
                * HighestTierMultiplier(settings.tiers, customers[c].loyalty_points))
           \div 1000000

(* C37: accrual uses the loyalty settings that GET /settings/loyalty         *)
(* reports.  In every state, the state with no settings document stored     *)
(* included, an accrual for an eligible customer applies the multiplier of  *)
(* the highest tier, among the tiers GET /settings/loyalty returns, whose   *)
(* min_points the customer's balance satisfies.                             *)
C37_AccrualUsesReportedTiers ==
    [][\A o \in DOMAIN orders, a \in AccrualAmounts, m \in {"cash", "bank_transfer"} :
          ( /\ orders[o].payment_status # "completed"
            /\ get_loyalty_settings(loyalty_settings).enabled
            /\ create_payment(o, a, m, "issued") )
             => Awards(orders[o].customer_id, o, ReportedPoints(orders[o].customer_id, a))]_vars

(* C38: PUT /settings/loyalty by an admin or manager changes only the       *)
(* fields provided with a non-null value: every other field, as read        *)
(* through GET /settings/loyalty, is the same before and after, also on the *)
(* first update when no settings document is stored; a staff actor is       *)
(* rejected and nothing changes.                                            *)
C38_SettingsUpdateFrame ==
    [][\A u \in Users, f \in SUBSET SettingsUpdateKeys, v \in SettingsUpdateValues :
          update_loyalty_settings(u, f, v)
             => IF u.role \in {"admin", "manager"}
                THEN \A key \in DOMAIN DefaultLoyaltySettings :
                        get_loyalty_settings(loyalty_settings')[key]
                           = (IF key \in f THEN v[key]
                              ELSE get_loyalty_settings(loyalty_settings)[key])
                ELSE response'.code = 403 /\ NothingStored]_vars

(* C39: every persisted order references a customer that existed when the  *)
(* order was created: order creation with a customer_id that matches no     *)
(* customer fails and persists no order.                                    *)
C39_OrderNeedsCustomer ==
    [][\A c \in CustomerIds, t \in CustomerTypes, tot \in OrderTotals, r \in RedeemChoices :
          (c \notin DOMAIN customers /\ create_order(c, t, tot, r, 0))
             => /\ response'.code \in 400 .. 499
                /\ NothingStored]_vars

====
